---------------------------- MODULE Spec2Model ----------------------------
(***************************************************************************)
(* Accessibility checker backend: the response-synthesis pipeline.         *)
(*                                                                         *)
(*   - RekognitionService   label categorizer and per-image scorer         *)
(*   - OpenRouterService    response parser and mock generator             *)
(*   - ComprehensiveAnalysisService.analyzeImages, in its two versions     *)
(*     (Rekognition+Bedrock, and OpenRouter)                               *)
(*   - POST /api/analyze    request validation in front of analyzeImages   *)
(*                                                                         *)
(* JavaScript strings are TLA+ strings, handled character by character     *)
(* with Len, SubSeq and \o.  Label confidences are whole numbers.          *)
(***************************************************************************)
EXTENDS Integers, Sequences, FiniteSets, TLC

(***************************************************************************)
(* String helpers (String.prototype.includes / toLowerCase / indexOf).     *)
(***************************************************************************)
Chr(s, i) == SubSeq(s, i, i)

includes(s, k) ==
    \E i \in 1..(Len(s) - Len(k) + 1) : SubSeq(s, i, i + Len(k) - 1) = k

UpperChars == "ABCDEFGHIJKLMNOPQRSTUVWXYZ"

LowerChars == "abcdefghijklmnopqrstuvwxyz"

lowerChar(c) ==
    IF \E j \in 1..26 : Chr(UpperChars, j) = c
    THEN Chr(LowerChars, CHOOSE j \in 1..26 : Chr(UpperChars, j) = c)
    ELSE c

RECURSIVE toLowerCase(_)
toLowerCase(s) ==
    IF Len(s) = 0 THEN "" ELSE lowerChar(Chr(s, 1)) \o toLowerCase(Tail(s))

\* [...new Set(seq)]: first occurrences, in insertion order
RECURSIVE uniq(_)
uniq(seq) ==
    IF Len(seq) = 0 THEN <<>>
    ELSE LET init == uniq(SubSeq(seq, 1, Len(seq) - 1))
             last == seq[Len(seq)]
         IN  IF \E i \in 1..Len(init) : init[i] = last THEN init
             ELSE Append(init, last)

Range(seq) == {seq[i] : i \in 1..Len(seq)}

\* Math.round(a / b) for a >= 0, b > 0 (halves round up)
roundDiv(a, b) == (2 * a + b) \div (2 * b)

(***************************************************************************)
(* RekognitionService (rekognition-service.js)                             *)
(***************************************************************************)
accessibilityObjects ==
    [positive |->
        <<"Ramp", "Handrail", "Grab Bar", "Wheelchair Accessible", "Wide Doorway",
          "Elevator", "Lift", "Accessible Bathroom", "Accessible Kitchen",
          "Good Lighting", "Clear Pathway", "Wide Hallway", "Accessible Entrance",
          "Non-slip Surface", "Safety Rail", "Emergency Exit", "Fire Extinguisher",
          "Smoke Detector", "Accessible Counter", "Wide Corridor", "Level Surface">>,
     negative |->
        <<"Step", "Stair", "Narrow Doorway", "Threshold", "Barrier", "Obstacle",
          "Cluttered", "Poor Lighting", "Narrow Hallway", "Inaccessible",
          "High Counter", "Narrow Path", "Trip Hazard", "Slippery Surface",
          "Steep Stair", "Narrow Stair", "High Step", "Uneven Surface",
          "Cluttered Hallway", "Narrow Corridor", "High Threshold">>,
     safety |->
        <<"Fire Extinguisher", "Smoke Detector", "Emergency Exit", "Safety Rail",
          "Non-slip Surface", "Good Lighting", "Clear Exit", "Emergency Equipment",
          "Exit Sign", "Emergency Lighting", "Safety Equipment">>,
     measurements |->
        <<"Doorway Width", "Hallway Width", "Stair Width", "Ramp Width",
          "Counter Height", "Threshold Height", "Step Height", "Ramp Slope">>,
     rooms |->
        <<"Bathroom", "Kitchen", "Bedroom", "Living Room", "Hallway", "Entrance",
          "Staircase", "Basement", "Attic", "Garage", "Laundry Room">>]

\* one "for (const k of table) if (name.includes(k.toLowerCase()))" loop
matchesTable(name, table) ==
    \E i \in 1..Len(table) : includes(name, toLowerCase(table[i]))

\* a categorizer that looks for barriers before features
categorizeObjectBarriersFirst(objectName) ==
    LET name == toLowerCase(objectName)
    IN  IF matchesTable(name, accessibilityObjects.negative) THEN "negative"
        ELSE IF matchesTable(name, accessibilityObjects.positive) THEN "positive"
        ELSE IF matchesTable(name, accessibilityObjects.safety) THEN "safety"
        ELSE IF matchesTable(name, accessibilityObjects.measurements) THEN "measurements"
        ELSE IF matchesTable(name, accessibilityObjects.rooms) THEN "rooms"
        ELSE "general"

categorizeObject(objectName) ==
    LET name == toLowerCase(objectName)
    IN  IF matchesTable(name, accessibilityObjects.positive) THEN "positive"
        ELSE IF matchesTable(name, accessibilityObjects.negative) THEN "negative"
        ELSE IF matchesTable(name, accessibilityObjects.safety) THEN "safety"
        ELSE IF matchesTable(name, accessibilityObjects.measurements) THEN "measurements"
        ELSE IF matchesTable(name, accessibilityObjects.rooms) THEN "rooms"
        ELSE "general"

getPositiveFeatureScore(featureName) ==
    LET name == toLowerCase(featureName)
    IN  IF includes(name, "ramp") \/ includes(name, "elevator") \/ includes(name, "lift")
        THEN 15
        ELSE IF includes(name, "wide doorway") \/ includes(name, "wide hallway")
                \/ includes(name, "accessible entrance")
        THEN 12
        ELSE IF includes(name, "grab bar") \/ includes(name, "handrail")
                \/ includes(name, "safety rail")
        THEN 10
        ELSE IF includes(name, "accessible bathroom") \/ includes(name, "accessible kitchen")
        THEN 8
        ELSE IF includes(name, "good lighting") \/ includes(name, "clear pathway")
        THEN 6
        ELSE 5

getNegativeFeaturePenalty(barrierName) ==
    LET name == toLowerCase(barrierName)
    IN  IF includes(name, "steep stair") \/ includes(name, "narrow stair")
           \/ includes(name, "high step")
        THEN 20
        ELSE IF includes(name, "narrow doorway") \/ includes(name, "narrow hallway")
                \/ includes(name, "narrow corridor")
        THEN 15
        ELSE IF includes(name, "high threshold") \/ includes(name, "step")
                \/ includes(name, "stair")
        THEN 12
        ELSE IF includes(name, "trip hazard") \/ includes(name, "slippery surface")
                \/ includes(name, "uneven surface")
        THEN 10
        ELSE IF includes(name, "cluttered") \/ includes(name, "poor lighting")
        THEN 8
        ELSE 5

\* RekognitionService.getRatingFromScore
RekognitionService_getRatingFromScore(score) ==
    IF score >= 90 THEN "Excellent"
    ELSE IF score >= 80 THEN "Good"
    ELSE IF score >= 70 THEN "Fair"
    ELSE IF score >= 60 THEN "Poor"
    ELSE "Very Poor"

\* RekognitionService.calculateOverallConfidence(labels)
RECURSIVE sumConfidence(_)
sumConfidence(labels) ==
    IF Len(labels) = 0 THEN 0
    ELSE labels[1].Confidence + sumConfidence(Tail(labels))

RekognitionService_calculateOverallConfidence(labels) ==
    IF Len(labels) = 0 THEN 0 ELSE roundDiv(sumConfidence(labels), Len(labels))

generateDetailedRecommendations(detectedObjects, redFlags, measurements, roomAnalysis) ==
    LET flagHas(k) == \E i \in 1..Len(redFlags) : includes(redFlags[i], k)
        roomHas(k) == \E i \in 1..Len(roomAnalysis) : includes(roomAnalysis[i], k)
        posHas(k)  == \E i \in 1..Len(detectedObjects.positive) :
                          includes(detectedObjects.positive[i].name, k)
        stairs   == IF flagHas("Step") \/ flagHas("Stair")
                    THEN <<"CRITICAL: Install ramp for wheelchair access (ADA requires 1:12 slope)",
                           "Consider stair lift or elevator for multi-level access">>
                    ELSE <<>>
        narrow   == IF flagHas("Narrow")
                    THEN <<"CRITICAL: Widen doorways to minimum 32 inches (ADA standard)",
                           "Expand hallways to minimum 36 inches width",
                           "Remove or relocate furniture blocking pathways">>
                    ELSE <<>>
        lighting == IF flagHas("Poor Lighting")
                    THEN <<"Install brighter lighting throughout the property",
                           "Add motion-activated lights in hallways and bathrooms",
                           "Ensure emergency lighting is functional">>
                    ELSE <<>>
        safety   == IF Len(detectedObjects.safety) = 0
                    THEN <<"Install smoke detectors in all rooms",
                           "Add fire extinguisher in kitchen and near exits",
                           "Ensure emergency exits are clearly marked">>
                    ELSE <<>>
        bathroom == IF roomHas("Bathroom")
                    THEN (IF ~posHas("Grab Bar")
                          THEN <<"Install grab bars in bathroom (near toilet and shower)">>
                          ELSE <<>>)
                         \o
                         (IF ~posHas("Accessible")
                          THEN <<"Consider accessible shower with no threshold">>
                          ELSE <<>>)
                    ELSE <<>>
        kitchen  == IF roomHas("Kitchen")
                    THEN (IF flagHas("High Counter")
                          THEN <<"Lower counter height or add adjustable counter sections">>
                          ELSE <<>>)
                         \o <<"Ensure clear pathways around kitchen island">>
                    ELSE <<>>
        general  == IF Len(detectedObjects.positive) = 0
                    THEN <<"Add universal design features throughout the home",
                           "Install lever-style door handles (easier than knobs)",
                           "Ensure all rooms are accessible from main living areas">>
                    ELSE <<>>
    IN  stairs \o narrow \o lighting \o safety \o bathroom \o kitchen \o general

\* the locals of processLabels before the forEach
processLabelsStart ==
    [detectedObjects |-> [positive |-> <<>>, negative |-> <<>>, safety |-> <<>>,
                          measurements |-> <<>>, rooms |-> <<>>, general |-> <<>>],
     accessibilityScore |-> 50,
     redFlags |-> <<>>,
     positiveFeatures |-> <<>>,
     measurements |-> <<>>,
     roomAnalysis |-> <<>>]

\* the body of labels.forEach(label => ...)
processLabel(acc, label) ==
    LET name       == label.Name
        confidence == label.Confidence
        category   == categorizeObject(name)
        pct        == ToString(confidence) \o "% confidence)"
        pushed     == [acc EXCEPT !.detectedObjects[category] =
                          Append(@, [name |-> name, confidence |-> confidence])]
    IN  IF category = "positive" THEN
            LET scoreBoost == getPositiveFeatureScore(name)
            IN  [pushed EXCEPT
                    !.accessibilityScore = @ + scoreBoost,
                    !.positiveFeatures = Append(@, name \o " (" \o pct \o " - +"
                                                   \o ToString(scoreBoost) \o " points")]
        ELSE IF category = "negative" THEN
            LET scorePenalty == getNegativeFeaturePenalty(name)
            IN  [pushed EXCEPT
                    !.accessibilityScore = @ - scorePenalty,
                    !.redFlags = Append(@, name \o " - Barrier (" \o pct \o " - -"
                                           \o ToString(scorePenalty) \o " points")]
        ELSE IF category = "safety" THEN
            [pushed EXCEPT
                !.accessibilityScore = @ + 8,
                !.positiveFeatures = Append(@, name \o " - Safety feature (" \o pct
                                               \o " - +8 points")]
        ELSE IF category = "measurements" THEN
            [pushed EXCEPT !.measurements = Append(@, name \o " detected (" \o pct)]
        ELSE IF category = "rooms" THEN
            [pushed EXCEPT !.roomAnalysis = Append(@, name \o " - Room type (" \o pct)]
        ELSE pushed

\* a loop that takes a label found several times in the list once
RECURSIVE processLabelsLoopOnce(_, _)
processLabelsLoopOnce(acc, labels) ==
    IF Len(labels) = 0 THEN acc
    ELSE IF \E i \in 2..Len(labels) : labels[i] = labels[1]
    THEN processLabelsLoopOnce(acc, Tail(labels))
    ELSE processLabelsLoopOnce(processLabel(acc, labels[1]), Tail(labels))

RECURSIVE processLabelsLoop(_, _)
processLabelsLoop(acc, labels) ==
    IF Len(labels) = 0 THEN acc
    ELSE processLabelsLoop(processLabel(acc, labels[1]), Tail(labels))

Max(a, b) == IF a >= b THEN a ELSE b

Min(a, b) == IF a <= b THEN a ELSE b

\* a clamp that only caps the score
clampScoreNoFloor(accessibilityScore) == Min(100, accessibilityScore)

\* Math.max(0, Math.min(100, accessibilityScore))
clampScore(accessibilityScore) == Max(0, Min(100, accessibilityScore))

processLabels(labels, filename) ==
    LET acc     == processLabelsLoop(processLabelsStart, labels)
        clamped == clampScore(acc.accessibilityScore)
    IN  [filename        |-> filename,
         score           |-> clamped,
         detectedObjects |-> acc.detectedObjects,
         positiveFeatures |-> acc.positiveFeatures,
         redFlags        |-> acc.redFlags,
         measurements    |-> acc.measurements,
         roomAnalysis    |-> acc.roomAnalysis,
         recommendations |-> generateDetailedRecommendations(
                                 acc.detectedObjects, acc.redFlags,
                                 acc.measurements, acc.roomAnalysis),
         totalLabels     |-> Len(labels),
         analysis        |-> [accessibilityRating |->
                                  RekognitionService_getRatingFromScore(clamped),
                              confidence |->
                                  RekognitionService_calculateOverallConfidence(labels)]]

(***************************************************************************)
(* JSON.parse, for the texts the provider returns.  A parsed value is a    *)
(* tagged record [t, v]: "num" (whole numbers), "str", "arr", "obj" (its   *)
(* members in text order), "lit" (true / false / null) and "undefined"     *)
(* for a missing member.  Fractions, exponents and backslash escapes are   *)
(* not part of the modelled texts.                                         *)
(***************************************************************************)
Digits == "0123456789"

isDigit(c) == \E j \in 1..10 : Chr(Digits, j) = c

digitVal(c) == (CHOOSE j \in 1..10 : Chr(Digits, j) = c) - 1

\* \s of a JavaScript RegExp, and JSON whitespace
isSpace(c) == c = " " \/ c = "\n" \/ c = "\t" \/ c = "\r"

RECURSIVE skipWs(_, _)
skipWs(s, i) == IF i <= Len(s) /\ isSpace(Chr(s, i)) THEN skipWs(s, i + 1) ELSE i

RECURSIVE scanDigits(_, _)
scanDigits(s, i) == IF i <= Len(s) /\ isDigit(Chr(s, i)) THEN scanDigits(s, i + 1) ELSE i

\* parseInt of a run of decimal digits
RECURSIVE parseInt(_)
parseInt(d) ==
    IF Len(d) = 0 THEN 0
    ELSE 10 * parseInt(SubSeq(d, 1, Len(d) - 1)) + digitVal(Chr(d, Len(d)))

indexOf(s, c) ==
    IF \E i \in 1..Len(s) : Chr(s, i) = c
    THEN CHOOSE i \in 1..Len(s) : Chr(s, i) = c /\ \A j \in 1..(i - 1) : Chr(s, j) # c
    ELSE 0

lastIndexOf(s, c) ==
    IF \E i \in 1..Len(s) : Chr(s, i) = c
    THEN CHOOSE i \in 1..Len(s) : Chr(s, i) = c /\ \A j \in (i + 1)..Len(s) : Chr(s, j) # c
    ELSE 0

jsonFail == [ok |-> FALSE, v |-> [t |-> "undefined", v |-> 0], next |-> 0]

jsonOk(t, v, next) == [ok |-> TRUE, v |-> [t |-> t, v |-> v], next |-> next]

\* a string token starting at the quote s[i]
jsonString(s, i) ==
    LET rest  == SubSeq(s, i + 1, Len(s))
        close == indexOf(rest, "\"")
        body  == SubSeq(rest, 1, close - 1)
    IN  IF close = 0 THEN jsonFail
        ELSE IF \E j \in 1..Len(body) : Chr(body, j) \in {"\n", "\t", "\r", "\\"}
        THEN jsonFail
        ELSE jsonOk("str", body, i + close + 1)

\* a number token starting at s[i]: -? (0 | [1-9][0-9]*)
jsonNumber(s, i) ==
    LET neg   == Chr(s, i) = "-"
        start == IF neg THEN i + 1 ELSE i
        stop  == scanDigits(s, start)
        run   == SubSeq(s, start, stop - 1)
    IN  IF stop = start THEN jsonFail
        ELSE IF Len(run) > 1 /\ Chr(run, 1) = "0" THEN jsonFail
        ELSE jsonOk("num", IF neg THEN 0 - parseInt(run) ELSE parseInt(run), stop)

jsonLiteral(s, i) ==
    IF i + 3 <= Len(s) /\ SubSeq(s, i, i + 3) = "true" THEN jsonOk("lit", "true", i + 4)
    ELSE IF i + 3 <= Len(s) /\ SubSeq(s, i, i + 3) = "null" THEN jsonOk("lit", "null", i + 4)
    ELSE IF i + 4 <= Len(s) /\ SubSeq(s, i, i + 4) = "false" THEN jsonOk("lit", "false", i + 5)
    ELSE jsonFail

RECURSIVE jsonValue(_, _), jsonElements(_, _, _), jsonMembers(_, _, _)
jsonValue(s, i0) ==
    LET i == skipWs(s, i0)
    IN  IF i > Len(s) THEN jsonFail
        ELSE LET c == Chr(s, i)
                 j == skipWs(s, i + 1)
             IN  IF c = "{" THEN
                     IF j <= Len(s) /\ Chr(s, j) = "}" THEN jsonOk("obj", <<>>, j + 1)
                     ELSE jsonMembers(s, j, <<>>)
                 ELSE IF c = "[" THEN
                     IF j <= Len(s) /\ Chr(s, j) = "]" THEN jsonOk("arr", <<>>, j + 1)
                     ELSE jsonElements(s, j, <<>>)
                 ELSE IF c = "\"" THEN jsonString(s, i)
                 ELSE IF c = "-" \/ isDigit(c) THEN jsonNumber(s, i)
                 ELSE jsonLiteral(s, i)

\* the elements of an array from s[i] on, up to the closing bracket
jsonElements(s, i, acc) ==
    LET e == jsonValue(s, i)
        j == skipWs(s, e.next)
    IN  IF ~e.ok \/ j > Len(s) THEN jsonFail
        ELSE IF Chr(s, j) = "," THEN jsonElements(s, j + 1, Append(acc, e.v))
        ELSE IF Chr(s, j) = "]" THEN jsonOk("arr", Append(acc, e.v), j + 1)
        ELSE jsonFail

\* the members of an object from s[i] on, up to the closing brace
jsonMembers(s, i0, acc) ==
    LET i == skipWs(s, i0)
        k == IF i <= Len(s) /\ Chr(s, i) = "\"" THEN jsonString(s, i) ELSE jsonFail
        c == skipWs(s, k.next)
        e == IF k.ok /\ c <= Len(s) /\ Chr(s, c) = ":" THEN jsonValue(s, c + 1) ELSE jsonFail
        j == skipWs(s, e.next)
        m == Append(acc, [k |-> k.v.v, v |-> e.v])
    IN  IF ~e.ok \/ j > Len(s) THEN jsonFail
        ELSE IF Chr(s, j) = "," THEN jsonMembers(s, j + 1, m)
        ELSE IF Chr(s, j) = "}" THEN jsonOk("obj", m, j + 1)
        ELSE jsonFail

\* JSON.parse(str): ok = FALSE stands for the SyntaxError it throws
JSONparse(str) ==
    LET r == jsonValue(str, 1)
    IN  IF r.ok /\ skipWs(str, r.next) = Len(str) + 1 THEN r ELSE jsonFail

\* parsed.key of a parsed object: the last member of that name, else undefined
member(obj, key) ==
    LET hits == {i \in 1..Len(obj.v) : obj.v[i].k = key}
    IN  IF hits = {} THEN [t |-> "undefined", v |-> 0]
        ELSE obj.v[CHOOSE i \in hits : \A j \in hits : j <= i].v

\* JavaScript truthiness of a parsed value
truthy(x) ==
    IF x.t = "num" THEN x.v # 0
    ELSE IF x.t = "str" THEN Len(x.v) > 0
    ELSE IF x.t = "lit" THEN x.v = "true"
    ELSE x.t \in {"arr", "obj"}

\* the JavaScript value of a parsed value: numbers, strings and arrays as such
RECURSIVE jsValue(_)
jsValue(x) ==
    IF x.t = "arr" THEN [i \in 1..Len(x.v) |-> jsValue(x.v[i])]
    ELSE IF x.t = "lit" THEN (x.v = "true")
    ELSE x.v

\* parsed.key ?? dflt: the default for a missing or null member only
orDefaultNullish(obj, key, dflt) ==
    LET x == member(obj, key)
    IN  IF x.t = "undefined" \/ (x.t = "lit" /\ x.v = "null") THEN dflt ELSE jsValue(x)

\* parsed.key || dflt
orDefault(obj, key, dflt) ==
    LET x == member(obj, key) IN IF truthy(x) THEN jsValue(x) ELSE dflt

(***************************************************************************)
(* OpenRouterService (comprehensive-analysis-service.js, 562-907); the     *)
(* parser of OpenAIService is the same code.                               *)
(***************************************************************************)
OpenRouterService_getRatingFromScore(score) ==
    IF score >= 90 THEN "Excellent"
    ELSE IF score >= 80 THEN "Good"
    ELSE IF score >= 70 THEN "Fair"
    ELSE IF score >= 60 THEN "Poor"
    ELSE "Very Poor"

\* text.split('\n')
RECURSIVE split(_)
split(text) ==
    LET nl == indexOf(text, "\n")
    IN  IF nl = 0 THEN <<text>>
        ELSE <<SubSeq(text, 1, nl - 1)>> \o split(SubSeq(text, nl + 1, Len(text)))

\* String.prototype.trim
RECURSIVE trim(_)
trim(s) ==
    IF Len(s) = 0 THEN s
    ELSE IF isSpace(Chr(s, 1)) THEN trim(Tail(s))
    ELSE IF isSpace(Chr(s, Len(s))) THEN trim(SubSeq(s, 1, Len(s) - 1))
    ELSE s

\* line.replace(/^[-*]\s*/, ''): one leading marker and the blanks after it
stripMarker(line) ==
    IF Len(line) > 0 /\ Chr(line, 1) \in {"-", "*"}
    THEN SubSeq(line, skipWs(line, 2), Len(line))
    ELSE line

\* the body of "for (const line of lines)": every keyword is tried on the line
extractLine(items, line, keywords) ==
    LET lowerLine == toLowerCase(line)
        cleanLine == trim(stripMarker(line))
        hit == \E k \in 1..Len(keywords) : includes(lowerLine, toLowerCase(keywords[k]))
    IN  IF hit /\ Len(cleanLine) > 0 /\ ~(\E i \in 1..Len(items) : items[i] = cleanLine)
        THEN Append(items, cleanLine)
        ELSE items

RECURSIVE extractLoop(_, _, _)
extractLoop(items, lines, keywords) ==
    IF Len(lines) = 0 THEN items
    ELSE extractLoop(extractLine(items, lines[1], keywords), Tail(lines), keywords)

\* items.slice(0, n)
slice(items, n) == SubSeq(items, 1, Min(n, Len(items)))

\* an extraction that returns every item found
extractItemsUnlimited(text, keywords) == extractLoop(<<>>, split(text), keywords)

extractItems(text, keywords) == slice(extractLoop(<<>>, split(text), keywords), 5)

\* text.match(/score[:\s]*(\d+)/i): the captured digits of the leftmost match, "" if none
RECURSIVE skipColonWs(_, _)
skipColonWs(s, i) ==
    IF i <= Len(s) /\ (Chr(s, i) = ":" \/ isSpace(Chr(s, i))) THEN skipColonWs(s, i + 1) ELSE i

scoreMatch(text) ==
    LET low  == toLowerCase(text)
        at(p) == /\ SubSeq(low, p, p + 4) = "score"
                 /\ LET d == skipColonWs(text, p + 5) IN scanDigits(text, d) > d
        hits == {p \in 1..(Len(text) - 4) : at(p)}
    IN  IF hits = {} THEN ""
        ELSE LET p == CHOOSE q \in hits : \A r \in hits : q <= r
                 d == skipColonWs(text, p + 5)
             IN  SubSeq(text, d, scanDigits(text, d) - 1)

fallbackParsing(analysisText, filename) ==
    LET m == scoreMatch(analysisText)
        score == IF Len(m) > 0 THEN parseInt(m) ELSE 50
        positiveFeatures == extractItems(analysisText,
            <<"ramp", "wide", "accessible", "grab bar", "handrail", "good lighting",
              "clear pathway", "accessible bathroom", "accessible kitchen">>)
        barriers == extractItems(analysisText,
            <<"step", "narrow", "threshold", "poor lighting", "cluttered",
              "inaccessible", "trip hazard", "slippery">>)
        recommendations == extractItems(analysisText,
            <<"install", "add", "improve", "widen", "remove", "fix">>)
    IN  [filename |-> filename,
         score |-> score,
         positive_features |-> positiveFeatures,
         barriers |-> barriers,
         safety_concerns |-> <<>>,
         recommendations |-> recommendations,
         accessibility_rating |-> OpenRouterService_getRatingFromScore(score),
         priority_improvements |-> slice(recommendations, 3),
         raw_analysis |-> analysisText,
         path |-> "fallback"]

\* analysisText.match(/\{[\s\S]*\}/): from the first { to the last }, "" if no match
jsonMatch(analysisText) ==
    LET open  == indexOf(analysisText, "{")
        close == lastIndexOf(analysisText, "}")
    IN  IF open > 0 /\ close > open THEN SubSeq(analysisText, open, close) ELSE ""

\* the record built from the parsed object
primaryRecord(parsed, analysisText, filename) ==
    [filename |-> filename,
     score |-> orDefault(parsed, "score", 0),
     positive_features |-> orDefault(parsed, "positive_features", <<>>),
     barriers |-> orDefault(parsed, "barriers", <<>>),
     safety_concerns |-> orDefault(parsed, "safety_concerns", <<>>),
     recommendations |-> orDefault(parsed, "recommendations", <<>>),
     accessibility_rating |-> orDefault(parsed, "accessibility_rating", "Unknown"),
     priority_improvements |-> orDefault(parsed, "priority_improvements", <<>>),
     raw_analysis |-> analysisText,
     path |-> "primary"]

\* a parser without the catch: the SyntaxError of JSON.parse leaves it
parseAnalysisResponseNoCatch(analysisText, filename) ==
    LET jsonStr == jsonMatch(analysisText)
        parsed  == JSONparse(jsonStr)
    IN  IF Len(jsonStr) > 0
        THEN IF parsed.ok THEN primaryRecord(parsed.v, analysisText, filename)
             ELSE [threw |-> "SyntaxError"]
        ELSE fallbackParsing(analysisText, filename)

\* "path" is not a field of the JavaScript record: it notes which return was taken
parseAnalysisResponse(analysisText, filename) ==
    LET jsonStr == jsonMatch(analysisText)
        parsed  == JSONparse(jsonStr)
    IN  IF Len(jsonStr) > 0
        THEN IF parsed.ok THEN primaryRecord(parsed.v, analysisText, filename)
             ELSE fallbackParsing(analysisText, filename)
        ELSE fallbackParsing(analysisText, filename)

(***************************************************************************)
(* generateMockAnalysis: a 32-bit rolling hash of the filename drives the  *)
(* choices.  The hash is kept as two 16-bit halves of its unsigned value,  *)
(* so that no intermediate result leaves the checker's integer range.      *)
(***************************************************************************)
AsciiLow == " !\"#$%&'(" \o ")*+,-./0123456789:;<=>?@ABCDEFGHIJKLMNOPQRSTUVWXYZ[\\]^_"

AsciiHigh == "abcdefghijklmnopqrstuvwxyz{|}~"

\* b.charCodeAt(0) for the printable ASCII characters (32..95, 97..126)
charCodeAt(c) ==
    IF indexOf(AsciiLow, c) > 0 THEN 31 + indexOf(AsciiLow, c)
    ELSE 96 + indexOf(AsciiHigh, c)

Half == 65536

\* a = ((a << 5) - a) + code; return a & a     (31 * a + code, modulo 2^32)
hashStep(a, code) ==
    LET lo == 31 * a.lo + code
        hi == 31 * a.hi + (lo \div Half)
    IN  [hi |-> hi % Half, lo |-> lo % Half]

RECURSIVE hashLoop(_, _)
hashLoop(a, str) ==
    IF Len(str) = 0 THEN a
    ELSE hashLoop(hashStep(a, charCodeAt(Chr(str, 1))), Tail(str))

\* filename.split('').reduce(..., 0)
filenameHash(filename) == hashLoop([hi |-> 0, lo |-> 0], filename)

\* the signed 32-bit hash is negative when its top bit is set
hashNegative(h) == h.hi >= Half \div 2

\* Math.abs(hash + k) for a small k >= 0, as the halves of the magnitude
absPlus(h, k) ==
    IF ~hashNegative(h)
    THEN [hi |-> h.hi + ((h.lo + k) \div Half), lo |-> (h.lo + k) % Half]
    ELSE LET m == IF h.lo = 0 THEN [hi |-> Half - h.hi, lo |-> 0]
                  ELSE [hi |-> Half - 1 - h.hi, lo |-> Half - h.lo]
         IN  IF m.lo >= k THEN [hi |-> m.hi, lo |-> m.lo - k]
             ELSE IF m.hi > 0 THEN [hi |-> m.hi - 1, lo |-> m.lo + Half - k]
             ELSE [hi |-> 0, lo |-> k - m.lo]

\* Math.abs(hash + k) % n
absMod(h, k, n) ==
    LET m == absPlus(h, k)
    IN  ((m.hi % n) * (Half % n) + (m.lo % n)) % n

mockRecommendationPool ==
    <<"Install handrails on both sides of stairs for better support",
      "Widen doorways to at least 32 inches for wheelchair access",
      "Add non-slip flooring in wet areas like bathrooms",
      "Improve lighting throughout the space for better visibility",
      "Remove or reduce height of thresholds at doorways",
      "Install grab bars in bathroom near toilet and shower",
      "Ensure clear pathways of at least 36 inches width",
      "Add ramps with proper slope (1:12 ratio) for accessibility",
      "Install lever-style door handles instead of knobs",
      "Add contrasting colors to help with visual navigation">>

mockFeaturePool ==
    <<"Wide doorways", "Good lighting", "Clear pathways", "Handrails", "Non-slip surfaces">>

mockBarrierPool ==
    <<"Narrow doorways", "Poor lighting", "Cluttered spaces", "High thresholds", "Steep stairs">>

seqHas(seq, x) == \E j \in 1..Len(seq) : seq[j] = x

\* for (let i = 0; i < numRecs; i++) { ... }   (the loop from index i on)
RECURSIVE mockRecommendations(_, _, _, _)
mockRecommendations(h, i, numRecs, recommendations) ==
    IF i >= numRecs THEN recommendations
    ELSE LET n   == Len(mockRecommendationPool)
             rec == mockRecommendationPool[absMod(h, i * 7, n) + 1]
             pushed == IF ~seqHas(recommendations, rec)
                       THEN mockRecommendationPool[absMod(h, i * 11, n) + 1]
                       ELSE rec
         IN  mockRecommendations(h, i + 1, numRecs, Append(recommendations, pushed))

\* the two "push if not included" loops, over a pool with stride k
RECURSIVE mockPick(_, _, _, _, _, _)
mockPick(h, i, count, stride, pool, picked) ==
    IF i >= count THEN picked
    ELSE LET x == pool[absMod(h, i * stride, Len(pool)) + 1]
         IN  mockPick(h, i + 1, count, stride, pool,
                      IF seqHas(picked, x) THEN picked ELSE Append(picked, x))

\* a base score without Math.abs: the remainder keeps the sign of the hash
mockBaseScoreSigned(hash) ==
    IF hashNegative(hash) THEN 40 - absMod(hash, 0, 45) ELSE 40 + absMod(hash, 0, 45)

\* 40 + (Math.abs(hash) % 45)
mockBaseScore(hash) == 40 + absMod(hash, 0, 45)

generateMockAnalysis(filename) ==
    LET hash        == filenameHash(filename)
        baseScore   == mockBaseScore(hash)
        numRecs     == 3 + absMod(hash, 5, 3)
        numFeatures == 2 + absMod(hash, 10, 2)
        numBarriers == 1 + absMod(hash, 15, 2)
        detectedFeatures == mockPick(hash, 0, numFeatures, 3, mockFeaturePool, <<>>)
        detectedBarriers == mockPick(hash, 0, numBarriers, 5, mockBarrierPool, <<>>)
    IN  [score |-> baseScore,
         confidence |-> 85 + absMod(hash, 0, 15),
         recommendations |-> mockRecommendations(hash, 0, numRecs, <<>>),
         detectedFeatures |-> detectedFeatures,
         detectedBarriers |-> detectedBarriers,
         \* a string; held in a one-field record so that reading a property
         \* off it is defined (it has none of the properties the callers read)
         analysis |-> [text |-> "This space shows " \o ToString(Len(detectedFeatures))
                      \o " positive accessibility features and "
                      \o ToString(Len(detectedBarriers))
                      \o " areas for improvement. The overall accessibility score is "
                      \o ToString(baseScore) \o "/100."],
         method |-> "Mock AI Analysis"]

\* OpenRouterService.analyzeAccessibility: call is what the OpenRouter request did,
\* [threw |-> TRUE] or [threw |-> FALSE, text |-> the reply].  It never throws.
OpenRouterService_analyzeAccessibility(call, filename) ==
    IF call.threw THEN generateMockAnalysis(filename)
    ELSE parseAnalysisResponse(call.text, filename)

(***************************************************************************)
(* ComprehensiveAnalysisService, Rekognition + Bedrock version             *)
(* (comprehensive-analysis-service.js, 282-550).                           *)
(***************************************************************************)

\* the value of 0 / 0, which Math.round returns unchanged; every comparison
\* of it with a threshold is false, as for the number chosen here
NaN == -999999

\* Math.round(totalScore / imageCount), for totalScore >= 0
mathRoundDiv(totalScore, imageCount) ==
    IF imageCount = 0 THEN NaN ELSE roundDiv(totalScore, imageCount)

\* a blend of the two scores in place of the larger one
mathMean(a, b) == IF a = NaN \/ b = NaN THEN NaN ELSE (a + b) \div 2

\* Math.max(a, b): NaN if either is
mathMax(a, b) == IF a = NaN \/ b = NaN THEN NaN ELSE Max(a, b)

\* r.key || []   for a list-valued property a result may lack
orEmpty(r, key) == IF key \in DOMAIN r THEN r[key] ELSE <<>>

\* let allDetectedObjects = { positive: [], negative: [], safety: [], general: [] }
noDetectedObjects ==
    [positive |-> <<>>, negative |-> <<>>, safety |-> <<>>, general |-> <<>>]

\* what analyzeImages has accumulated: its locals
startLocals ==
    [analysisResults |-> <<>>,
     totalScore |-> 0,
     allPositiveFeatures |-> <<>>,
     allRedFlags |-> <<>>,
     allRecommendations |-> <<>>,
     allDetectedObjects |-> noDetectedObjects]

\* a catch that records nothing for the failed image
rekognitionPlaceholderSkipped(loc, image) == loc

\* the catch of the per-image try
rekognitionPlaceholder(loc, image) ==
    [loc EXCEPT !.analysisResults = Append(@,
        [filename |-> image.filename,
         rekognition |-> [error |-> "Rekognition analysis failed", score |-> 0]])]

\* the body of the per-image try once rekognitionResult has arrived
rekognitionAggregate(loc, image, rekognitionResult) ==
    [analysisResults |-> Append(loc.analysisResults,
         [filename |-> image.filename, rekognition |-> rekognitionResult]),
     totalScore |-> loc.totalScore + rekognitionResult.score,
     allPositiveFeatures |-> loc.allPositiveFeatures \o rekognitionResult.positiveFeatures,
     allRedFlags |-> loc.allRedFlags \o rekognitionResult.redFlags,
     allRecommendations |-> loc.allRecommendations \o rekognitionResult.recommendations,
     allDetectedObjects |-> [category \in DOMAIN loc.allDetectedObjects |->
         loc.allDetectedObjects[category] \o rekognitionResult.detectedObjects[category]]]

\* analysisResults.filter(result => !result.rekognition.error)
RECURSIVE validResults(_)
validResults(analysisResults) ==
    IF Len(analysisResults) = 0 THEN <<>>
    ELSE (IF "error" \in DOMAIN analysisResults[1].rekognition
          THEN <<>> ELSE <<analysisResults[1]>>) \o validResults(Tail(analysisResults))

\* validResults.reduce((sum, result) => sum + (result.rekognition.analysis?.confidence || 0), 0)
RECURSIVE totalConfidence(_)
totalConfidence(results) ==
    IF Len(results) = 0 THEN 0
    ELSE (IF "analysis" \in DOMAIN results[1].rekognition
          THEN results[1].rekognition.analysis.confidence ELSE 0)
         + totalConfidence(Tail(results))

calculateOverallConfidence(analysisResults) ==
    LET valid == validResults(analysisResults)
    IN  IF Len(valid) = 0 THEN 0
        ELSE roundDiv(totalConfidence(valid), Len(valid))

\* the thresholds with the "Fair" step left out
getRatingFromScoreNoFair(score) ==
    IF score >= 90 THEN "Excellent"
    ELSE IF score >= 80 THEN "Good"
    ELSE IF score >= 60 THEN "Poor"
    ELSE "Very Poor"

getRatingFromScore(score) ==
    IF score >= 90 THEN "Excellent"
    ELSE IF score >= 80 THEN "Good"
    ELSE IF score >= 70 THEN "Fair"
    ELSE IF score >= 60 THEN "Poor"
    ELSE "Very Poor"

\* claudeResult.score || averageScore
scoreOr(result, averageScore) ==
    IF "score" \in DOMAIN result /\ result.score # 0 THEN result.score ELSE averageScore

synthesizeResults(analysisResults, claudeResult, allDetectedObjects, allPositiveFeatures, allRedFlags, allRecommendations, totalScore, imageCount) ==
    LET averageScore == mathRoundDiv(totalScore, imageCount)
        combinedPositiveFeatures ==
            uniq(allPositiveFeatures \o orEmpty(claudeResult, "positive_features"))
        combinedRedFlags == uniq(allRedFlags \o orEmpty(claudeResult, "barriers"))
        combinedRecommendations ==
            uniq(allRecommendations \o orEmpty(claudeResult, "recommendations"))
    IN  [success |-> TRUE,
         analysis |->
            [overall_score |-> mathMax(averageScore, scoreOr(claudeResult, averageScore)),
             analyzed_images |-> imageCount,
             positive_features |-> combinedPositiveFeatures,
             barriers |-> combinedRedFlags,
             recommendations |-> combinedRecommendations,
             detailed_results |-> analysisResults,
             detected_objects |-> allDetectedObjects,
             analysis_methods |-> [rekognition |-> TRUE, claude |-> TRUE, combined |-> TRUE],
             confidence |-> calculateOverallConfidence(analysisResults),
             accessibility_rating |->
                 getRatingFromScore(mathMax(averageScore, scoreOr(claudeResult, averageScore)))]]

\* a fallback that averages over the images that were analysed
createFallbackAnalysisOverValid(analysisResults, allDetectedObjects, allPositiveFeatures, allRedFlags, allRecommendations, totalScore, imageCount) ==
    LET averageScore == mathRoundDiv(totalScore, Len(validResults(analysisResults)))
    IN  [success |-> TRUE,
         analysis |->
            [overall_score |-> averageScore,
             analyzed_images |-> imageCount,
             positive_features |-> uniq(allPositiveFeatures),
             barriers |-> uniq(allRedFlags),
             recommendations |-> uniq(allRecommendations),
             detailed_results |-> analysisResults,
             detected_objects |-> allDetectedObjects,
             analysis_methods |-> [rekognition |-> TRUE, claude |-> FALSE, combined |-> FALSE],
             confidence |-> calculateOverallConfidence(analysisResults),
             accessibility_rating |-> getRatingFromScore(averageScore)]]

createFallbackAnalysis(analysisResults, allDetectedObjects, allPositiveFeatures, allRedFlags, allRecommendations, totalScore, imageCount) ==
    LET averageScore == mathRoundDiv(totalScore, imageCount)
    IN  [success |-> TRUE,
         analysis |->
            [overall_score |-> averageScore,
             analyzed_images |-> imageCount,
             positive_features |-> uniq(allPositiveFeatures),
             barriers |-> uniq(allRedFlags),
             recommendations |-> uniq(allRecommendations),
             detailed_results |-> analysisResults,
             detected_objects |-> allDetectedObjects,
             analysis_methods |-> [rekognition |-> TRUE, claude |-> FALSE, combined |-> FALSE],
             confidence |-> calculateOverallConfidence(analysisResults),
             accessibility_rating |-> getRatingFromScore(averageScore)]]

\* what analyzeImages hands back: a report it returns or an error it throws
returns(report) == [kind |-> "report", report |-> report]

throws(message) == [kind |-> "thrown", message |-> message]

\* BedrockService is not among the sources.  It is taken to behave as the
\* other language-model adapter with a catch that rethrows (OpenAIService):
\* the parsed reply, or an error when the request fails.
BedrockService_analyzeAccessibility(reply, filename) ==
    IF reply.threw THEN [threw |-> TRUE]
    ELSE [threw |-> FALSE, result |-> parseAnalysisResponse(reply.text, filename)]

\* an inner catch that rethrows instead of falling back
analyzeImagesStep2Rethrows(loc, images, call) ==
    IF Len(images) = 0 \/ call.threw
    THEN throws("Analysis failed: Claude analysis failed")
    ELSE returns(synthesizeResults(loc.analysisResults, call.result,
                     loc.allDetectedObjects, loc.allPositiveFeatures, loc.allRedFlags,
                     loc.allRecommendations, loc.totalScore, Len(images)))

\* analyzeImages from "Step 2" on, given what the Bedrock call did.  With no
\* image, images[0].base64 is a TypeError inside the inner try, before any call.
analyzeImagesStep2(loc, images, call) ==
    IF Len(images) = 0 \/ call.threw
    THEN returns(createFallbackAnalysis(loc.analysisResults, loc.allDetectedObjects,
                     loc.allPositiveFeatures, loc.allRedFlags, loc.allRecommendations,
                     loc.totalScore, Len(images)))
    ELSE returns(synthesizeResults(loc.analysisResults, call.result,
                     loc.allDetectedObjects, loc.allPositiveFeatures, loc.allRedFlags,
                     loc.allRecommendations, loc.totalScore, Len(images)))

(***************************************************************************)
(* ComprehensiveAnalysisService, OpenRouter version                        *)
(* (comprehensive-analysis-service.js, 1-270).  Its vision service is      *)
(* whatever './rekognition-service' exports.                               *)
(***************************************************************************)

\* the catch of the per-image try
visionPlaceholder(loc, image) ==
    [loc EXCEPT !.analysisResults = Append(@,
        [filename |-> image.filename,
         vision |-> [error |-> "Vision analysis failed", score |-> 0]])]

\* the body of the per-image try once visionResult has arrived: the entry is
\* pushed and the score added before the three lists are spread; spreading a
\* list the result lacks is a TypeError, which the catch answers with a
\* placeholder entry after the one already pushed
visionAggregate(loc, image, visionResult) ==
    LET a  == visionResult.analysis
        l1 == [loc EXCEPT
                 !.analysisResults = Append(@, [filename |-> image.filename,
                                                vision |-> visionResult]),
                 !.totalScore = @ + visionResult.score]
    IN  IF "accessibility_features" \notin DOMAIN a THEN visionPlaceholder(l1, image)
        ELSE LET l2 == [l1 EXCEPT !.allPositiveFeatures = @ \o a.accessibility_features]
             IN  IF "barriers" \notin DOMAIN a THEN visionPlaceholder(l2, image)
                 ELSE LET l3 == [l2 EXCEPT !.allRedFlags = @ \o a.barriers]
                      IN  IF "recommendations" \notin DOMAIN a
                          THEN visionPlaceholder(l3, image)
                          ELSE [l3 EXCEPT !.allRecommendations = @ \o a.recommendations]

\* analysisResults.reduce((sum, result) => sum + (result.vision?.score || 0), 0)
RECURSIVE sumVisionScores(_)
sumVisionScores(analysisResults) ==
    IF Len(analysisResults) = 0 THEN 0
    ELSE (IF "vision" \in DOMAIN analysisResults[1]
          THEN analysisResults[1].vision.score ELSE 0)
         + sumVisionScores(Tail(analysisResults))

\* comprehensiveResult.analysis?.key || []
analysisOrEmpty(comprehensiveResult, key) ==
    IF "analysis" \in DOMAIN comprehensiveResult
    THEN orEmpty(comprehensiveResult.analysis, key)
    ELSE <<>>

\* confidence: 0.95, as hundredths
SynthesizedConfidence == 95

getRatingFromScoreOpenRouter(score) ==
    IF score >= 90 THEN "Excellent"
    ELSE IF score >= 80 THEN "Good"
    ELSE IF score >= 70 THEN "Fair"
    ELSE IF score >= 60 THEN "Poor"
    ELSE "Very Poor"

synthesizeResultsOpenRouter(analysisResults, comprehensiveResult, allAccessibilityFeatures, allBarriers, allRecommendations, imageCount) ==
    LET averageScore == mathRoundDiv(sumVisionScores(analysisResults), imageCount)
        combinedAccessibilityFeatures ==
            uniq(allAccessibilityFeatures
                 \o analysisOrEmpty(comprehensiveResult, "accessibility_features"))
        combinedBarriers ==
            uniq(allBarriers \o analysisOrEmpty(comprehensiveResult, "barriers"))
        combinedRecommendations ==
            uniq(allRecommendations
                 \o analysisOrEmpty(comprehensiveResult, "recommendations"))
    IN  [success |-> TRUE,
         analysis |->
            [overall_score |->
                 mathMax(averageScore, scoreOr(comprehensiveResult, averageScore)),
             analyzed_images |-> imageCount,
             accessibility_features |-> combinedAccessibilityFeatures,
             barriers |-> combinedBarriers,
             recommendations |-> combinedRecommendations,
             detailed_results |-> analysisResults,
             analysis_methods |->
                 [vision_ai |-> TRUE, comprehensive_ai |-> TRUE, combined |-> TRUE],
             confidence |-> SynthesizedConfidence,
             accessibility_rating |-> getRatingFromScoreOpenRouter(
                 mathMax(averageScore, scoreOr(comprehensiveResult, averageScore)))]]

\* this version's calculateOverallConfidence reads result.rekognition.error of
\* entries that carry "vision": a TypeError on the first entry, if there is one
createFallbackAnalysisOpenRouter(analysisResults, allDetectedObjects, allPositiveFeatures, allRedFlags, allRecommendations, totalScore, imageCount) ==
    LET averageScore == mathRoundDiv(totalScore, imageCount)
    IN  IF Len(analysisResults) > 0
        THEN throws("Analysis failed: Cannot read properties of undefined (reading 'error')")
        ELSE returns(
            [success |-> TRUE,
             analysis |->
                [overall_score |-> averageScore,
                 analyzed_images |-> imageCount,
                 positive_features |-> uniq(allPositiveFeatures),
                 barriers |-> uniq(allRedFlags),
                 recommendations |-> uniq(allRecommendations),
                 detailed_results |-> analysisResults,
                 detected_objects |-> allDetectedObjects,
                 analysis_methods |->
                     [rekognition |-> TRUE, claude |-> FALSE, combined |-> FALSE],
                 confidence |-> 0,
                 accessibility_rating |-> getRatingFromScoreOpenRouter(averageScore)]])

\* analyzeImages from "Step 2" on; comprehensiveResult is what OpenRouterService
\* returned (it never throws).  With no image, images[0].base64 is a TypeError
\* inside the inner try, before any call.
analyzeImagesStep2OpenRouter(loc, images, comprehensiveResult) ==
    IF Len(images) = 0
    THEN createFallbackAnalysisOpenRouter(loc.analysisResults, loc.allDetectedObjects,
             loc.allPositiveFeatures, loc.allRedFlags, loc.allRecommendations,
             loc.totalScore, Len(images))
    ELSE returns(synthesizeResultsOpenRouter(loc.analysisResults, comprehensiveResult,
             loc.allPositiveFeatures, loc.allRedFlags, loc.allRecommendations,
             Len(images)))

(***************************************************************************)
(* ValidationService.validateAnalyzeRequest and the POST /api/analyze      *)
(* handler (server.js, 199-238).  A request body is a record that may      *)
(* carry "images"; an image is [filename, base64Len], the length standing  *)
(* for the base64 string.                                                  *)
(***************************************************************************)
FilenameMin == 1

FilenameMax == 255

Base64Min == 100

Base64Max == 15728640

\* imageSchema: the Joi error codes of one item
imageErrors(image) ==
    (IF Len(image.filename) < FilenameMin THEN <<"string.empty">>
     ELSE IF Len(image.filename) > FilenameMax THEN <<"string.max">> ELSE <<>>)
    \o (IF image.base64Len < Base64Min THEN <<"string.min">>
        ELSE IF image.base64Len > Base64Max THEN <<"string.max">> ELSE <<>>)

RECURSIVE itemErrors(_)
itemErrors(imgs) ==
    IF Len(imgs) = 0 THEN <<>> ELSE imageErrors(imgs[1]) \o itemErrors(Tail(imgs))

\* analyzeRequestSchema.validate(data, { abortEarly: false }): error is null
\* exactly when details is empty
validateAnalyzeRequest(data) ==
    LET details ==
            IF "images" \notin DOMAIN data THEN <<"any.required">>
            ELSE itemErrors(data.images)
                 \o (IF Len(data.images) < 1 THEN <<"array.min">> ELSE <<>>)
    IN  [error |-> Len(details) > 0, details |-> details]

noResponse == [status |-> 0]

\* a handler that trusts a present images field
analyzePreflightNoEmptyCheck(reqBody) ==
    IF "images" \notin DOMAIN reqBody
    THEN [status |-> 400,
          body |-> [error |-> "No images provided",
                    message |-> "Please provide images for analysis"]]
    ELSE noResponse

\* the handler up to the call of analyzeImages: the 400 it answers with, or
\* noResponse when it goes on
analyzePreflight(reqBody) ==
    LET validationResult == validateAnalyzeRequest(reqBody)
    IN  IF validationResult.error
        THEN [status |-> 400,
              body |-> [error |-> "Invalid request", details |-> validationResult.details]]
        ELSE IF "images" \notin DOMAIN reqBody \/ Len(reqBody.images) = 0
        THEN [status |-> 400,
              body |-> [error |-> "No images provided",
                        message |-> "Please provide images for analysis"]]
        ELSE noResponse

\* the handler after analyzeImages: res.json(finalResult), or the catch's 500
analyzeRespond(outcome) ==
    IF outcome.kind = "report"
    THEN [status |-> 200, body |-> outcome.report]
    ELSE [status |-> 500,
          body |-> [error |-> "Analysis failed",
                    message |-> "Internal server error during analysis"]]

(***************************************************************************)
(* POST /api/upload and the error-handling middleware (server.js).         *)
(***************************************************************************)

\* path.extname(originalname): from the last dot on, "" without a dot
extname(originalname) ==
    LET dot == lastIndexOf(originalname, ".")
    IN  IF dot > 1 THEN SubSeq(originalname, dot, Len(originalname)) ELSE ""

\* /jpeg|jpg|png|webp/.test(s)
allowedTypes(s) ==
    includes(s, "jpeg") \/ includes(s, "jpg") \/ includes(s, "png") \/ includes(s, "webp")

\* fileFilter: TRUE when the file is let through
fileFilter(file) ==
    LET extname_ == allowedTypes(toLowerCase(extname(file.originalname)))
        mimetype == allowedTypes(file.mimetype)
    IN  mimetype /\ extname_

\* limits.files and the maxCount of upload.array('images', 5)
MaxFiles == 5

\* limits.fileSize: 10 * 1024 * 1024
MaxFileSize == 10485760

noError == [raised |-> FALSE]

\* upload.array('images', 5) over the parts of the request, in order: the
\* first part that is refused ends the upload with its error
RECURSIVE multerUpload(_, _)
multerUpload(files, k) ==
    IF k > Len(files) THEN noError
    ELSE IF k > MaxFiles
    THEN [raised |-> TRUE, multer |-> TRUE, code |-> "LIMIT_FILE_COUNT"]
    ELSE IF ~fileFilter(files[k])
    THEN [raised |-> TRUE, multer |-> FALSE,
          code |-> "Only image files (JPEG, PNG, WebP) are allowed!"]
    ELSE IF files[k].size > MaxFileSize
    THEN [raised |-> TRUE, multer |-> TRUE, code |-> "LIMIT_FILE_SIZE"]
    ELSE multerUpload(files, k + 1)

\* app.use((error, req, res, next) => ...)
errorMiddleware(error) ==
    IF error.multer /\ error.code = "LIMIT_FILE_SIZE"
    THEN [status |-> 400,
          body |-> [error |-> "File too large",
                    message |-> "File size must be less than 10MB"]]
    ELSE IF error.multer /\ error.code = "LIMIT_FILE_COUNT"
    THEN [status |-> 400,
          body |-> [error |-> "Too many files", message |-> "Maximum 5 files allowed"]]
    ELSE [status |-> 500,
          body |-> [error |-> "Internal server error",
                    message |-> "An unexpected error occurred"]]

\* the files of req.files at the positions in processed, in order
RECURSIVE processedImages(_, _, _)
processedImages(files, processed, k) ==
    IF k > Len(files) THEN <<>>
    ELSE (IF k \in processed
          THEN <<[filename |-> files[k].originalname, size |-> files[k].size,
                  mimetype |-> files[k].mimetype]>>
          ELSE <<>>)
         \o processedImages(files, processed, k + 1)

\* the handler of POST /api/upload once multer has stored the files;
\* processed holds the positions of the files imageService could convert
uploadHandler(files, processed) ==
    IF Len(files) = 0
    THEN [status |-> 400,
          body |-> [error |-> "No images provided",
                    message |-> "Please upload at least one image"]]
    ELSE IF processed = {}
    THEN [status |-> 400,
          body |-> [error |-> "No valid images processed",
                    message |-> "All uploaded images failed processing"]]
    ELSE [status |-> 200,
          body |-> [success |-> TRUE,
                    message |-> "Images uploaded successfully",
                    images |-> processedImages(files, processed, 1),
                    count |-> Cardinality(processed)]]

(***************************************************************************)
(* Inputs                                                                  *)
(***************************************************************************)
MaxImages == 2

\* the k-th image of a request
ImageAt(k) == [filename |-> "img" \o ToString(k) \o ".jpg", base64Len |-> 120]

\* a request's images: up to MaxImages well-formed items
ImageLists == {[k \in 1..n |-> ImageAt(k)] : n \in 0..MaxImages}

\* an item whose base64 string is shorter than the schema allows
ShortImage == [filename |-> "tiny.jpg", base64Len |-> 10]

\* the bodies POSTed to /api/analyze: {} , { images: [] }, a malformed item,
\* and the well-formed lists
RequestBodies ==
    {<<>>, [images |-> <<ShortImage>>]} \cup {[images |-> imgs] : imgs \in ImageLists}

\* what DetectLabels may answer for an image
LabelLists ==
    { <<[Name |-> "Ramp", Confidence |-> 99], [Name |-> "Elevator", Confidence |-> 98],
        [Name |-> "Wheelchair Lift", Confidence |-> 97], [Name |-> "Ramp", Confidence |-> 96]>>,
      <<[Name |-> "Steep Stair", Confidence |-> 91], [Name |-> "Narrow Stair", Confidence |-> 85],
        [Name |-> "High Step", Confidence |-> 80]>>,
      <<[Name |-> "Wide Doorway", Confidence |-> 90], [Name |-> "Handrail", Confidence |-> 88],
        [Name |-> "Step", Confidence |-> 75], [Name |-> "Clear Pathway", Confidence |-> 81],
        [Name |-> "Fire Extinguisher", Confidence |-> 72], [Name |-> "Kitchen", Confidence |-> 80]>> }

\* a vision result of the shape the OpenRouter version's loop reads
VisionResults ==
    { [score |-> 75,
       analysis |-> [accessibility_features |-> <<"Wide doorways">>,
                     barriers |-> <<"Steep stairs">>,
                     recommendations |->
                         <<"Install grab bars in bathroom near toilet and shower">>]] }

\* what the language model may answer for the whole set
ProviderTexts ==
    { "Great analysis. {\"score\": 92, \"positive_features\":[\"Wide hallway\"], "
          \o "\"barriers\":[], \"recommendations\":[]}",
      "{\"score\": 85, \"positive_features\": [\"Good lighting\"], \"barriers\": "
          \o "[\"Narrow doorway\"], \"recommendations\": [\"Widen doorway\"], "
          \o "\"accessibility_rating\": \"Good\"}",
      "{\"score\": 150, \"barriers\": [\"Step at entrance\"]}",
      "{\"positive_features\": [\"Good lighting\", \"Good lighting\"]}",
      "Overall Score: 65\n- Install ramp at entrance\n* Narrow hallway by the stairs",
      "The space is accessible {score: 70}",
      "Accessibility score 250 out of 100",
      "No assessment possible" }

WholeSetFilename == "comprehensive_analysis"

JpegFile == [originalname |-> "test.jpg", mimetype |-> "image/jpeg", size |-> 15]

TextFile == [originalname |-> "test.txt", mimetype |-> "text/plain", size |-> 14]

HugeFile == [originalname |-> "Plan.PNG", mimetype |-> "image/png", size |-> 11534336]

\* the files attached to a POST /api/upload, in order
UploadLists ==
    { <<>>, <<JpegFile>>, <<TextFile>>, <<HugeFile>>, <<JpegFile, TextFile>>,
      [k \in 1..MaxFiles |-> JpegFile], [k \in 1..(MaxFiles + 1) |-> JpegFile] }

(***************************************************************************)
(* The state: one request to one deployed version of the service.          *)
(***************************************************************************)
VARIABLES
    version,        \* which ComprehensiveAnalysisService is deployed
    caller,         \* "http" (POST /api/analyze), "direct" (analyzeImages called),
                    \* "upload" (POST /api/upload), "json" (stopped in express.json)
    reqBody,        \* the request body, for an http caller
    pc,             \* "idle", "image" / "wholeset" (a provider call in flight),
                    \* "waiting" (on a provider that never answers), "done"
    images,         \* the argument of analyzeImages
    next,           \* the index of the image whose provider call is in flight
    locals,         \* the locals of analyzeImages
    returned,       \* what analyzeImages handed back
    response,       \* the HTTP response
    invoked,        \* analyzeImages has been called
    providerCalls,  \* the provider calls made so far
    calls,          \* what each per-image provider call did, in order
    secondary,      \* what the whole-set call did and the adapter returned
    input,          \* the arguments drawn for a service method applied on its own
    output,         \* what the applications of that method returned, in order
    scraper         \* a call of scrapeImagesWithPython: its processes, timer and promise

vars == <<version, caller, reqBody, pc, images, next, locals, returned, response,
          invoked, providerCalls, calls, secondary, input, output, scraper>>

noOutcome == [kind |-> "none"]

noSecondary == [made |-> FALSE]

noInput == [op |-> "none"]

Init ==
    /\ version \in {"bedrock", "openrouter"}
    /\ caller = "none"
    /\ reqBody = <<>>
    /\ pc = "idle"
    /\ images = <<>>
    /\ next = 1
    /\ locals = startLocals
    /\ returned = noOutcome
    /\ response = noResponse
    /\ invoked = FALSE
    /\ providerCalls = 0
    /\ calls = <<>>
    /\ secondary = noSecondary
    /\ input = noInput
    /\ output = <<>>
    /\ scraper = [phase |-> "idle"]

\* analyzeImages(imgs) up to its first await.  With images, that is the first
\* per-image provider call; with none, the loop is skipped and the inner try
\* fails before the whole-set call, so the function runs to its end.
Enter(c, imgs) ==
    /\ images' = imgs
    /\ invoked' = TRUE
    /\ locals' = startLocals
    /\ next' = 1
    /\ calls' = <<>>
    /\ secondary' = noSecondary
    /\ IF Len(imgs) = 0
       THEN LET outcome == IF version = "bedrock"
                           THEN analyzeImagesStep2(startLocals, imgs, [threw |-> TRUE])
                           ELSE analyzeImagesStep2OpenRouter(startLocals, imgs, <<>>)
            IN  /\ returned' = outcome
                /\ response' = IF c = "http" THEN analyzeRespond(outcome) ELSE noResponse
                /\ providerCalls' = 0
                /\ pc' = "done"
       ELSE /\ returned' = noOutcome
            /\ response' = noResponse
            /\ providerCalls' = 1
            /\ pc' = "image"

\* POST /api/analyze arrives
PostAnalyze(body) ==
    /\ pc = "idle"
    /\ caller' = "http"
    /\ reqBody' = body
    /\ UNCHANGED <<version, input, output, scraper>>
    /\ LET rejected == analyzePreflight(body)
       IN  IF rejected.status = 400
           THEN /\ response' = rejected
                /\ pc' = "done"
                /\ UNCHANGED <<images, next, locals, returned, invoked, providerCalls,
                               calls, secondary>>
           ELSE Enter("http", body.images)

\* analyzeImages is called by other code of the process
DirectCall(imgs) ==
    /\ pc = "idle"
    /\ caller' = "direct"
    /\ UNCHANGED <<version, reqBody, input, output, scraper>>
    /\ Enter("direct", imgs)

\* the end of one iteration of the per-image loop: the next image's call, or,
\* after the last image, the whole-set call
imageDone(newLocals, outcome) ==
    /\ pc = "image"
    /\ locals' = newLocals
    /\ calls' = Append(calls, outcome)
    /\ next' = next + 1
    /\ providerCalls' = providerCalls + 1
    /\ pc' = IF next < Len(images) THEN "image" ELSE "wholeset"
    /\ UNCHANGED <<version, caller, reqBody, images, returned, response, invoked, secondary,
                   input, output, scraper>>

\* DetectLabels answers; RekognitionService.analyzeAccessibility returns
RekognitionReturns(labels) ==
    /\ pc = "image"
    /\ \E result \in {processLabels(labels, images[next].filename)} :
           imageDone(IF version = "bedrock"
                     THEN rekognitionAggregate(locals, images[next], result)
                     ELSE visionAggregate(locals, images[next], result),
                     [threw |-> FALSE, result |-> result])

\* DetectLabels fails; RekognitionService.analyzeAccessibility throws
RekognitionThrows ==
    /\ pc = "image"
    /\ imageDone(IF version = "bedrock"
                 THEN rekognitionPlaceholder(locals, images[next])
                 ELSE visionPlaceholder(locals, images[next]),
                 [threw |-> TRUE])

\* DetectLabels never answers: await this.rekognitionClient.send(command)
\* stays pending, the client being built without a request timeout and the
\* call being raced against no timer
DetectLabelsSilent ==
    /\ pc = "image"
    /\ pc' = "waiting"
    /\ UNCHANGED <<version, caller, reqBody, images, next, locals, returned, response,
                   invoked, providerCalls, calls, secondary, input, output, scraper>>

\* a vision service of the OpenRouter version returns a result of its own shape
VisionReturns(result) ==
    /\ pc = "image"
    /\ version = "openrouter"
    /\ imageDone(visionAggregate(locals, images[next], result),
                 [threw |-> FALSE, result |-> result])

\* the end of analyzeImages, and of the handler that awaited it
finish(outcome, sec) ==
    /\ pc = "wholeset"
    /\ returned' = outcome
    /\ secondary' = sec
    /\ response' = IF caller = "http" THEN analyzeRespond(outcome) ELSE noResponse
    /\ pc' = "done"
    /\ UNCHANGED <<version, caller, reqBody, images, next, locals, invoked, providerCalls,
                   calls, input, output, scraper>>

\* the Bedrock call answers with a text
BedrockReturns(text) ==
    /\ pc = "wholeset"
    /\ version = "bedrock"
    /\ \E call \in {BedrockService_analyzeAccessibility(
                        [threw |-> FALSE, text |-> text], WholeSetFilename)} :
       \E outcome \in {analyzeImagesStep2(locals, images, call)} :
           finish(outcome, [made |-> TRUE, threw |-> FALSE, result |-> call.result])

\* the Bedrock call fails
BedrockThrows ==
    /\ pc = "wholeset"
    /\ version = "bedrock"
    /\ \E call \in {BedrockService_analyzeAccessibility([threw |-> TRUE],
                                                        WholeSetFilename)} :
       \E outcome \in {analyzeImagesStep2(locals, images, call)} :
           finish(outcome, [made |-> TRUE, threw |-> TRUE])

\* the OpenRouter request answers with a text
OpenRouterReplies(text) ==
    /\ pc = "wholeset"
    /\ version = "openrouter"
    /\ \E result \in {OpenRouterService_analyzeAccessibility(
                          [threw |-> FALSE, text |-> text], WholeSetFilename)} :
       \E outcome \in {analyzeImagesStep2OpenRouter(locals, images, result)} :
           finish(outcome, [made |-> TRUE, threw |-> FALSE, result |-> result])

\* the OpenRouter request fails: the adapter returns its mock analysis
OpenRouterFails ==
    /\ pc = "wholeset"
    /\ version = "openrouter"
    /\ \E result \in {OpenRouterService_analyzeAccessibility([threw |-> TRUE],
                                                             WholeSetFilename)} :
       \E outcome \in {analyzeImagesStep2OpenRouter(locals, images, result)} :
           finish(outcome, [made |-> TRUE, threw |-> TRUE, result |-> result])

\* POST /api/upload arrives: multer, then the handler or the error middleware
PostUpload(files, processed) ==
    /\ pc = "idle"
    /\ caller' = "upload"
    /\ reqBody' = [files |-> files]
    /\ LET error == multerUpload(files, 1)
       IN  response' = IF error.raised THEN errorMiddleware(error)
                       ELSE uploadHandler(files, processed)
    /\ pc' = "done"
    /\ UNCHANGED <<version, images, next, locals, returned, invoked, providerCalls,
                   calls, secondary, input, output, scraper>>

\* POST /api/analyze arrives with a body express.json cannot parse: it hands
\* its SyntaxError to the error middleware and the route is not entered
PostMalformedJson ==
    /\ pc = "idle"
    /\ caller' = "json"
    /\ reqBody' = [malformed |-> TRUE]
    /\ response' = errorMiddleware([raised |-> TRUE, multer |-> FALSE,
                                    code |-> "entity.parse.failed"])
    /\ pc' = "done"
    /\ UNCHANGED <<version, images, next, locals, returned, invoked, providerCalls,
                   calls, secondary, input, output, scraper>>

Next ==
    \/ \E body \in RequestBodies : PostAnalyze(body)
    \/ \E files \in UploadLists : \E processed \in SUBSET DOMAIN files :
           PostUpload(files, processed)
    \/ PostMalformedJson
    \/ \E imgs \in ImageLists : DirectCall(imgs)
    \/ \E labels \in LabelLists : RekognitionReturns(labels)
    \/ RekognitionThrows
    \/ DetectLabelsSilent
    \/ \E result \in VisionResults : VisionReturns(result)
    \/ \E text \in ProviderTexts : BedrockReturns(text)
    \/ BedrockThrows
    \/ \E text \in ProviderTexts : OpenRouterReplies(text)
    \/ OpenRouterFails

Spec == Init /\ [][Next]_vars

(***************************************************************************)
(* The methods of the services applied on their own: the arguments are     *)
(* drawn at the start, and each step is one call of the method.            *)
(***************************************************************************)

\* label names given to categorizeObject
LabelNames ==
    { "Ramp", "Stair Handrail", "Narrow Doorway", "STEEP STAIR", "Exit Sign",
      "Fire Extinguisher", "Doorway Width", "Stair Width", "Bathroom", "Staircase",
      "Tree", "Doorstep", "narrow doorway", "Grab Bar", "Kitchen", "High Counter",
      "Poor Lighting", "Clear Exit", "Wheelchair Lift", "Accessible Bathroom",
      "Inaccessible Bathroom", "Inaccessible Entrance", "Inaccessible", "Smoke Detector" }

\* the names the label lists given to processLabels are made of
ScoredNames ==
    { "Ramp", "Narrow Doorway", "Steep Stair", "Exit Sign", "Bathroom", "Grab Bar",
      "Doorway Width", "Tree", "Doorstep" }

Label(name) == [Name |-> name, Confidence |-> 90]

\* the label lists: every list of at most two of the names, in both orders,
\* and lists long enough to leave the range 0..100 before the clamp
ScoredLabelLists ==
    {<<>>}
    \cup {<<Label(a)>> : a \in ScoredNames}
    \cup {<<Label(a), Label(b)>> : a \in ScoredNames, b \in ScoredNames}
    \cup { <<Label("Ramp"), Label("Elevator"), Label("Wheelchair Lift"), Label("Ramp")>>,
           <<Label("Steep Stair"), Label("High Step"), Label("Narrow Stair")>>,
           <<Label("Bathroom"), Label("Kitchen"), Label("narrow doorway")>>,
           <<Label("Wide Doorway"), Label("Accessible Kitchen"), Label("Good Lighting"),
             Label("Level Surface")>>,
           <<Label("Trip Hazard"), Label("Cluttered"), Label("Obstacle")>>,
           <<Label("Smoke Detector")>>,
           <<Label("Fire Extinguisher"), Label("Tree")>>,
           <<Label("Emergency Exit"), Label("Exit Sign")>>,
           <<Label("Inaccessible Bathroom")>>,
           <<Label("Inaccessible Entrance"), Label("Steep Stair")>>,
           <<Label("Inaccessible")>> }

\* texts with a span from a first { to a last } that is a JSON object
JsonTexts ==
    { "Great analysis. {\"score\": 92, \"positive_features\":[\"Wide hallway\"], "
          \o "\"barriers\":[], \"recommendations\":[]}",
      "{\"score\": 85, \"positive_features\": [\"Good lighting\"], \"barriers\": "
          \o "[\"Narrow doorway\"], \"recommendations\": [\"Widen doorway\"], "
          \o "\"accessibility_rating\": \"Good\"}",
      "{\"score\": 150, \"barriers\": [\"Step at entrance\"]}",
      "{\"safety_concerns\": [\"Loose carpet edge\"], \"priority_improvements\": "
          \o "[\"Install entrance ramp\"], \"accessibility_rating\": \"Poor\"}",
      "Here it is:\n{\"score\": 40, \"notes\": {\"checked\": true}}\nThank you.",
      "{\"score\": null, \"barriers\": null, \"accessibility_rating\": \"\"}",
      "{}" }

\* texts with a span from a first { to a last } that is not JSON
BrokenJsonTexts ==
    { "The space is accessible {score: 70}",
      "{\"score\": 70,}",
      "{\"score\": 10} and then {\"score\": 20}" }

\* texts without any span from a { to a later }
SpanFreeTexts ==
    { "Overall Score: 65\n- Install ramp at entrance\n* Narrow hallway by the stairs",
      "Accessibility score 250 out of 100",
      "No assessment possible",
      "Barrier: narrow doorway causing access issues",
      "Score: high.\nOverall score 65",
      "} closing before opening {",
      "- Add ramp\n- Add ramp\n- Install lift\n- Fix step\n- Widen door\n"
          \o "- Improve light\n- Remove rug\n  - Add rail" }

ParserTexts == JsonTexts \cup BrokenJsonTexts \cup SpanFreeTexts

\* calls of OpenRouterService.analyzeAccessibility whose request fails: the
\* bytes of the image (named, not spelled out) and the filename passed
FailedCalls ==
    { [base64Image |-> b, filename |-> f] :
          b \in {"bytes-A", "bytes-B"},
          f \in {"front-door.jpg", "kitchen.png", WholeSetFilename} }

\* filenames given to generateMockAnalysis: hashes that are zero, positive,
\* negative and -2^31, and pairs of names with one hash
MockFilenames ==
    { "", "a", "ab", "Aa", "BB", "polygenelubricants", "GydZG_", "DESIGNING WORKHOUSES",
      "front-door.jpg", "kitchen.png", "comprehensive_analysis", "img1.jpg",
      "living-room.webp", "bathroom_01.jpeg", "stairs.jpg", "zzzzzz" }

\* providers that are functions of the image: what DetectLabels does for each
\* image, and what the OpenRouter request does when it carries each image
DetectOutcomes ==
    {[threw |-> TRUE]} \cup {[threw |-> FALSE, labels |-> l] : l \in LabelLists}

ReplyOutcomes ==
    { [threw |-> TRUE],
      [threw |-> FALSE, text |-> "{\"score\": 85, \"positive_features\": [\"Good lighting\"], "
          \o "\"barriers\": [\"Narrow doorway\"], \"recommendations\": [\"Widen doorway\"], "
          \o "\"accessibility_rating\": \"Good\"}"],
      [threw |-> FALSE, text |-> "No assessment possible"] }

TwoImages == <<ImageAt(1), ImageAt(2)>>

\* the same two images in both orders, given to analyzeImages with the same providers
PermutedCalls ==
    { <<[images |-> TwoImages, detect |-> d, reply |-> r],
        [images |-> <<ImageAt(2), ImageAt(1)>>, detect |-> d, reply |-> r]>> :
          d \in [Range(TwoImages) -> DetectOutcomes],
          r \in [Range(TwoImages) -> ReplyOutcomes] }

UnitInputs ==
    {[op |-> "categorizeObject", args |-> <<[objectName |-> n]>>] : n \in LabelNames}
    \cup {[op |-> "processLabels", args |-> <<[labels |-> l, filename |-> "img1.jpg"]>>] :
              l \in ScoredLabelLists}
    \cup {[op |-> "parseAnalysisResponse",
           args |-> <<[analysisText |-> t, filename |-> "img1.jpg"]>>] : t \in ParserTexts}
    \cup {[op |-> "generateMockAnalysis", args |-> <<[filename |-> f]>>] :
              f \in MockFilenames}
    \cup {[op |-> "analyzeImages", args |-> calls2] : calls2 \in PermutedCalls}
    \cup {[op |-> "analyzeAccessibility", args |-> <<c1, c2>>] :
              c1 \in FailedCalls, c2 \in FailedCalls}

\* no request is being served; the services are the same in both versions
UnitInit ==
    /\ version = "openrouter"
    /\ caller = "none"
    /\ reqBody = <<>>
    /\ pc = "idle"
    /\ images = <<>>
    /\ next = 1
    /\ locals = startLocals
    /\ returned = noOutcome
    /\ response = noResponse
    /\ invoked = FALSE
    /\ providerCalls = 0
    /\ calls = <<>>
    /\ secondary = noSecondary
    /\ input \in UnitInputs
    /\ output = <<>>
    /\ scraper = [phase |-> "idle"]

\* one call of the method named op, on the next arguments drawn for it
applied(op, result) ==
    /\ input.op = op
    /\ Len(output) < Len(input.args)
    /\ output' = Append(output, result)
    /\ UNCHANGED <<version, caller, reqBody, pc, images, next, locals, returned, response,
                   invoked, providerCalls, calls, secondary, input, scraper>>

\* the arguments of the next call
arg == input.args[Len(output) + 1]

CategorizeObject ==
    /\ input.op = "categorizeObject"
    /\ Len(output) < Len(input.args)
    /\ applied("categorizeObject", categorizeObject(arg.objectName))

ProcessLabels ==
    /\ input.op = "processLabels"
    /\ Len(output) < Len(input.args)
    /\ \E result \in {processLabels(arg.labels, arg.filename)} :
           applied("processLabels", result)

ParseAnalysisResponse ==
    /\ input.op = "parseAnalysisResponse"
    /\ Len(output) < Len(input.args)
    /\ \E result \in {parseAnalysisResponse(arg.analysisText, arg.filename)} :
           applied("parseAnalysisResponse", result)

\* OpenRouterService.analyzeAccessibility(base64Image, filename) when the
\* request fails: base64Image went into the request only
FailedAnalyzeAccessibility ==
    /\ input.op = "analyzeAccessibility"
    /\ Len(output) < Len(input.args)
    /\ \E result \in {OpenRouterService_analyzeAccessibility([threw |-> TRUE],
                                                             arg.filename)} :
           applied("analyzeAccessibility", result)

\* the per-image loop of analyzeImages (OpenRouter version) from image k on,
\* the vision service being RekognitionService over what DetectLabels does
RECURSIVE analyzeImagesLoop(_, _, _, _)
analyzeImagesLoop(loc, imgs, k, detect) ==
    IF k > Len(imgs) THEN loc
    ELSE LET outcome == detect[imgs[k]]
         IN  analyzeImagesLoop(
                 IF outcome.threw THEN visionPlaceholder(loc, imgs[k])
                 ELSE visionAggregate(loc, imgs[k],
                          processLabels(outcome.labels, imgs[k].filename)),
                 imgs, k + 1, detect)

\* analyzeImages(images) of the OpenRouter version, one or more images: the
\* whole-set request carries images[0].base64 alone
analyzeImages(imgs, detect, reply) ==
    analyzeImagesStep2OpenRouter(
        analyzeImagesLoop(startLocals, imgs, 1, detect), imgs,
        OpenRouterService_analyzeAccessibility(reply[imgs[1]], WholeSetFilename))

AnalyzeImages ==
    /\ input.op = "analyzeImages"
    /\ Len(output) < Len(input.args)
    /\ \E result \in {analyzeImages(arg.images, arg.detect, arg.reply)} :
           applied("analyzeImages", result)

GenerateMockAnalysis ==
    /\ input.op = "generateMockAnalysis"
    /\ Len(output) < Len(input.args)
    /\ \E result \in {generateMockAnalysis(arg.filename)} :
           applied("generateMockAnalysis", result)

UnitNext ==
    \/ AnalyzeImages
    \/ CategorizeObject
    \/ GenerateMockAnalysis
    \/ ProcessLabels
    \/ ParseAnalysisResponse
    \/ FailedAnalyzeAccessibility

UnitSpec == UnitInit /\ [][UnitNext]_vars

(***************************************************************************)
(* scrapeImagesWithPython (server.js, 359-478): a promise settled by the   *)
(* events of the scraper process, of the mock scraper spawned when the     *)
(* first one closes with another code than 0, and of a 60-second timer.   *)
(* A promise settles once: resolve and reject on a settled promise do      *)
(* nothing.  The texts of stderr, which go into one message only, and the  *)
(* property details parsed from stdout are left out.                       *)
(***************************************************************************)
\* the data events one process may emit
MaxChunks == 2

\* the close handler's resolve: parseScraperOutput(stdout).imageUrls, one
\* [^\s]+ run from the photo host in each line that holds it, as processedImages
scraperResolution(stdout) ==
    LET host  == "https://photos.zillowstatic.com/"
        lines == split(stdout)
        at(line) == CHOOSE i \in 1..Len(line) :
                        /\ i + Len(host) - 1 <= Len(line)
                        /\ SubSeq(line, i, i + Len(host) - 1) = host
                        /\ \A j \in 1..(i - 1) : SubSeq(line, j, j + Len(host) - 1) # host
        stop(line, i) == IF \E j \in i..Len(line) : isSpace(Chr(line, j))
                         THEN (CHOOSE j \in i..Len(line) :
                                   /\ isSpace(Chr(line, j))
                                   /\ \A k \in i..(j - 1) : ~isSpace(Chr(line, k))) - 1
                         ELSE Len(line)
        hits == {k \in 1..Len(lines) : includes(lines[k], host)}
        nth(n) == CHOOSE k \in hits : Cardinality({h \in hits : h < k}) = n - 1
    IN  [state |-> "resolved",
         images |-> [n \in 1..Cardinality(hits) |->
                        [filename |-> "scraped_image_" \o ToString(n) \o ".jpg",
                         url |-> SubSeq(lines[nth(n)], at(lines[nth(n)]),
                                        stop(lines[nth(n)], at(lines[nth(n)]))),
                         index |-> n - 1]]]

\* the module has not called the scraper; nothing else is going on
ScraperInit ==
    /\ version = "openrouter"
    /\ caller = "none"
    /\ reqBody = <<>>
    /\ pc = "idle"
    /\ images = <<>>
    /\ next = 1
    /\ locals = startLocals
    /\ returned = noOutcome
    /\ response = noResponse
    /\ invoked = FALSE
    /\ providerCalls = 0
    /\ calls = <<>>
    /\ secondary = noSecondary
    /\ input = noInput
    /\ output = <<>>
    /\ scraper = [phase |-> "idle"]

\* scrapeImagesWithPython(url, maxImages): the scraper is spawned, the
\* handlers are registered and the timer is set
ScrapeCalled(url) ==
    /\ scraper.phase = "idle"
    /\ scraper' = [phase |-> "called", url |-> url, python |-> "running", stdout |-> "",
                   chunks |-> 0, killed |-> FALSE, mock |-> "none", mockStdout |-> "",
                   mockChunks |-> 0, timer |-> "armed", spawned |-> 1,
                   promise |-> [state |-> "pending"]]
    /\ UNCHANGED <<version, caller, reqBody, pc, images, next, locals, returned, response,
                   invoked, providerCalls, calls, secondary, input, output>>

\* a 'data' event of the stdout of the scraper ("python") or of the mock scraper
ProcessData(which, chunk) ==
    /\ scraper.phase = "called"
    /\ IF which = "python"
       THEN /\ scraper.python = "running"
            /\ scraper.chunks < MaxChunks
            /\ scraper' = [scraper EXCEPT !.stdout = @ \o chunk, !.chunks = @ + 1]
       ELSE /\ scraper.mock = "running"
            /\ scraper.mockChunks < MaxChunks
            /\ scraper' = [scraper EXCEPT !.mockStdout = @ \o chunk, !.mockChunks = @ + 1]
    /\ UNCHANGED <<version, caller, reqBody, pc, images, next, locals, returned, response,
                   invoked, providerCalls, calls, secondary, input, output>>

\* an 'error' event: the process could not be started
ProcessError(which) ==
    /\ scraper.phase = "called"
    /\ LET rejected(message) ==
               IF scraper.promise.state = "pending"
               THEN [state |-> "rejected", message |-> message]
               ELSE scraper.promise
       IN  IF which = "python"
           THEN /\ scraper.python = "running" /\ scraper.chunks = 0 /\ ~scraper.killed
                /\ scraper' = [scraper EXCEPT
                                 !.python = "errored",
                                 !.promise = rejected("Failed to start Python scraper")]
           ELSE /\ scraper.mock = "running" /\ scraper.mockChunks = 0
                /\ scraper' = [scraper EXCEPT
                                 !.mock = "errored",
                                 !.promise = rejected("Mock scraper process error")]
    /\ UNCHANGED <<version, caller, reqBody, pc, images, next, locals, returned, response,
                   invoked, providerCalls, calls, secondary, input, output>>

\* the 'close' event of the scraper, code being "0", "1" or "null" (ended by
\* a signal); after an 'error' event the close that follows carries no 0.
\* Any code but 0 spawns the mock scraper.
PythonClose(code) ==
    /\ scraper.phase = "called"
    /\ \/ scraper.python = "running"
       \/ scraper.python = "errored" /\ code # "0"
    /\ scraper' =
           IF code = "0"
           THEN [scraper EXCEPT
                   !.python = "closed",
                   !.promise = IF @.state = "pending" THEN scraperResolution(scraper.stdout)
                               ELSE @]
           ELSE [scraper EXCEPT !.python = "closed", !.mock = "running",
                                !.spawned = @ + 1]
    /\ UNCHANGED <<version, caller, reqBody, pc, images, next, locals, returned, response,
                   invoked, providerCalls, calls, secondary, input, output>>

\* the 'close' event of the mock scraper
MockClose(code) ==
    /\ scraper.phase = "called"
    /\ scraper.mock \in {"running", "errored"}
    /\ scraper.mock = "errored" => code # "0"
    /\ scraper' = [scraper EXCEPT
                     !.mock = "closed",
                     !.promise = IF @.state # "pending" THEN @
                                 ELSE IF code = "0" THEN scraperResolution(scraper.mockStdout)
                                 ELSE [state |-> "rejected",
                                       message |-> "Both scrapers failed"]]
    /\ UNCHANGED <<version, caller, reqBody, pc, images, next, locals, returned, response,
                   invoked, providerCalls, calls, secondary, input, output>>

\* the setTimeout callback, 60 seconds after the call: pythonProcess.kill()
\* signals the scraper if it is still running, and the promise is rejected.
\* The timer is never cleared.
TimerFires ==
    /\ scraper.phase = "called"
    /\ scraper.timer = "armed"
    /\ scraper' = [scraper EXCEPT
                     !.timer = "fired",
                     !.killed = (scraper.python = "running"),
                     !.promise = IF @.state = "pending"
                                 THEN [state |-> "rejected",
                                       message |-> "Python scraper timeout"]
                                 ELSE @]
    /\ UNCHANGED <<version, caller, reqBody, pc, images, next, locals, returned, response,
                   invoked, providerCalls, calls, secondary, input, output>>

ScraperNext ==
    \/ \E url \in {"https://www.zillow.com/homedetails/1", "https://example.com/listing"} :
           ScrapeCalled(url)
    \/ \E which \in {"python", "mock"} :
       \E chunk \in {"Image 1: https://photos.zillowstatic.com/fp/a.jpg (saved)\n",
                     "Scraping listing\n"} :
           ProcessData(which, chunk)
    \/ \E which \in {"python", "mock"} : ProcessError(which)
    \/ \E code \in {"0", "1", "null"} : PythonClose(code)
    \/ \E code \in {"0", "1", "null"} : MockClose(code)
    \/ TimerFires

ScraperSpec == ScraperInit /\ [][ScraperNext]_vars

(***************************************************************************)
(* Properties.  What the report is compared with is computed from what the *)
(* provider calls did (calls, secondary), not from the aggregator's locals. *)
(***************************************************************************)
N == Len(images)

done == pc = "done"

reported == returned.kind = "report"

\* the thresholds of the rating
Rating(score) ==
    CASE score >= 90 -> "Excellent"
      [] score >= 80 /\ score < 90 -> "Good"
      [] score >= 70 /\ score < 80 -> "Fair"
      [] score >= 60 /\ score < 70 -> "Poor"
      [] score < 60 -> "Very Poor"

\* a / b rounded to the nearest whole number, halves upwards
Rounded(a, b) == CHOOSE r \in 0..(a + 1) : 2 * b * r <= 2 * a + b /\ 2 * a + b < 2 * b * (r + 1)

failedImages == {k \in 1..Len(calls) : calls[k].threw}

\* the score an image contributes: its analysis' score, 0 if its call failed
imageScore(k) == IF calls[k].threw THEN 0 ELSE calls[k].result.score

RECURSIVE sumImageScores(_)
sumImageScores(k) == IF k = 0 THEN 0 ELSE sumImageScores(k - 1) + imageScore(k)

\* the list an image's result contributes under "features", "barriers" or
\* "recommendations": the Rekognition result's own lists in the one version,
\* the lists under the result's analysis, where it has them, in the other
imageList(k, list) ==
    IF calls[k].threw THEN <<>>
    ELSE IF version = "bedrock"
    THEN calls[k].result[CASE list = "features" -> "positiveFeatures"
                           [] list = "barriers" -> "redFlags"
                           [] list = "recommendations" -> "recommendations"]
    ELSE LET key == IF list = "features" THEN "accessibility_features" ELSE list
         IN  IF key \in DOMAIN calls[k].result.analysis
             THEN calls[k].result.analysis[key] ELSE <<>>

\* the strings the successful per-image results list
RECURSIVE imageStrings(_, _)
imageStrings(k, list) ==
    IF k = 0 THEN {} ELSE imageStrings(k - 1, list) \cup Range(imageList(k, list))

noDuplicates(list) == \A i, j \in 1..Len(list) : list[i] = list[j] => i = j

inRange(score) == 0 <= score /\ score <= 100

\* C1: once analyzeImages has been called with one image or more, it never
\* throws, whatever the provider calls did; when it is over it has returned a
\* report with success = true (and an http caller has been answered 200).
C1_AlwaysAReport ==
    (invoked /\ N >= 1) =>
        /\ returned.kind # "thrown"
        /\ done => /\ reported
                   /\ returned.report.success = TRUE
                   /\ caller = "http" => response.status = 200 /\ response.body.success = TRUE

\* every per-image call and the whole-set call have failed, and there is a report
C1_AllProvidersFailed ==
    /\ done /\ invoked /\ N >= 2 /\ reported
    /\ Cardinality(failedImages) = N
    /\ secondary.made /\ secondary.threw

\* C2: in the Rekognition + Bedrock version, when exactly one of two or more
\* per-image calls has failed, the report counts all N images and its
\* detailed_results holds, in order, the zero-score error placeholder for the
\* failed image and the analysis Rekognition returned for each other image.
C2_OneFailureContained ==
    (done /\ invoked /\ version = "bedrock" /\ N >= 2 /\ Cardinality(failedImages) = 1) =>
        /\ reported
        /\ returned.report.analysis.analyzed_images = N
        /\ Len(returned.report.analysis.detailed_results) = N
        /\ \A k \in 1..N :
              LET entry == returned.report.analysis.detailed_results[k]
              IN  /\ entry.filename = images[k].filename
                  /\ IF calls[k].threw
                     THEN /\ "error" \in DOMAIN entry.rekognition
                          /\ entry.rekognition.score = 0
                     ELSE /\ "error" \notin DOMAIN entry.rekognition
                          /\ entry.rekognition = calls[k].result

\* one image of several has failed and the others carry their analysis
C2_OneOfSeveralFailed ==
    /\ done /\ invoked /\ version = "bedrock" /\ N >= 2 /\ reported
    /\ Cardinality(failedImages) = 1
    /\ \E k \in 1..N : ~calls[k].threw /\ calls[k].result.score > 0

\* the mean confidence of the images whose call succeeded, 0 if there is none
RECURSIVE sumImageConfidence(_)
sumImageConfidence(k) ==
    IF k = 0 THEN 0
    ELSE sumImageConfidence(k - 1)
         + (IF calls[k].threw THEN 0 ELSE calls[k].result.analysis.confidence)

C4_OverallIsMax ==
    (done /\ invoked /\ N >= 1 /\ secondary.made /\ ~secondary.threw) =>
        /\ reported
        /\ returned.report.analysis.overall_score =
               Max(Rounded(sumImageScores(N), N), secondary.result.score)

\* the whole-set call returned a score below a mean that had to be rounded
C4_AverageWins ==
    /\ done /\ invoked /\ N >= 2 /\ reported
    /\ secondary.made /\ ~secondary.threw
    /\ sumImageScores(N) % N # 0
    /\ secondary.result.score > 0
    /\ secondary.result.score < returned.report.analysis.overall_score

\* C5: with one image or more, every score is within 0..100: the score of
\* each per-image analysis, the score the whole-set adapter returned (parsed
\* on the primary path, on the fallback path, or the mock's), and the
\* report's overall_score.  Stated for the version whose adapter is
\* OpenRouterService, so that every score comes out of code of the sources.
C5_ScoresInRange ==
    (invoked /\ N >= 1 /\ version = "openrouter") =>
        /\ \A k \in 1..Len(calls) : inRange(imageScore(k))
        /\ (secondary.made /\ "result" \in DOMAIN secondary) => inRange(secondary.result.score)
        /\ reported => inRange(returned.report.analysis.overall_score)

\* C6: every rating that is computed from a score is the step function of
\* the score reported with it: in each per-image analysis of the scorer, in
\* a whole-set result parsed on the fallback path, and in every report
\* (synthesized or fallback, either version) for its overall_score.
C6_RatingFollowsScore ==
    /\ \A k \in 1..Len(calls) :
          (~calls[k].threw /\ "accessibilityRating" \in DOMAIN calls[k].result.analysis) =>
              calls[k].result.analysis.accessibilityRating = Rating(calls[k].result.score)
    /\ (secondary.made /\ "result" \in DOMAIN secondary /\ "path" \in DOMAIN secondary.result) =>
          (secondary.result.path = "fallback" =>
              secondary.result.accessibility_rating = Rating(secondary.result.score))
    /\ reported =>
          returned.report.analysis.accessibility_rating
              = Rating(returned.report.analysis.overall_score)

\* a report rated "Fair" whose whole-set text was parsed on the fallback path
C6_FairReport ==
    /\ done /\ reported /\ N >= 1
    /\ returned.report.analysis.accessibility_rating = "Fair"
    /\ secondary.made /\ "result" \in DOMAIN secondary /\ "path" \in DOMAIN secondary.result
    /\ secondary.result.path = "fallback"

\* C7: every record the response parser produces has the rating that the
\* thresholds give for its own score, on the primary path as on the fallback
\* path.  Stated for the records OpenRouterService.parseAnalysisResponse
\* returns to the aggregator.
C7_ParsedRatingFollowsScore ==
    (/\ version = "openrouter"
     /\ secondary.made /\ "result" \in DOMAIN secondary
     /\ "path" \in DOMAIN secondary.result) =>
        secondary.result.accessibility_rating = Rating(secondary.result.score)

\* the strings of the whole-set result under a key, if the call succeeded
secondaryStrings(key) ==
    IF secondary.made /\ ~secondary.threw /\ key \in DOMAIN secondary.result
    THEN Range(secondary.result[key]) ELSE {}

\* C8: in every report for one image or more, each of the three lists has no
\* two equal strings and holds exactly the strings of the successful
\* per-image results and of the whole-set result.
C8_ListsAreTheUnion ==
    (done /\ reported /\ N >= 1) =>
        LET a == returned.report.analysis
            features == IF "positive_features" \in DOMAIN a
                        THEN a.positive_features ELSE a.accessibility_features
        IN  /\ noDuplicates(features)
            /\ noDuplicates(a.barriers)
            /\ noDuplicates(a.recommendations)
            /\ Range(features) = imageStrings(N, "features")
                                 \cup secondaryStrings("positive_features")
            /\ Range(a.barriers) = imageStrings(N, "barriers")
                                   \cup secondaryStrings("barriers")
            /\ Range(a.recommendations) = imageStrings(N, "recommendations")
                                          \cup secondaryStrings("recommendations")

\* C9: a POST /api/analyze whose body has no images field or an empty images
\* array is answered 400 with an error property, and analyzeImages is not
\* called nor any provider call made.
C9_EmptyRequestRejected ==
    (caller = "http" /\ ("images" \notin DOMAIN reqBody \/ Len(reqBody.images) = 0)) =>
        /\ response.status = 400
        /\ "error" \in DOMAIN response.body
        /\ ~invoked
        /\ providerCalls = 0
        /\ returned.kind = "none"

\* a request with an empty images array has been answered
C9_EmptyArrayAnswered ==
    /\ caller = "http" /\ done
    /\ "images" \in DOMAIN reqBody /\ Len(reqBody.images) = 0
    /\ response.status = 400

\* C10: analyzeImages called with no image throws an input error, makes no
\* provider call and returns no report.
C10_NoImagesIsAnError ==
    (invoked /\ N = 0 /\ done) =>
        /\ returned.kind = "thrown"
        /\ providerCalls = 0

\* C11: whenever the external call of an adapter has failed, the adapter has
\* returned an analysis (its mock placeholder) and has not thrown: for the
\* label adapter called per image as for the OpenRouter adapter called for
\* the whole set.
C11_AdapterFailureYieldsMock ==
    /\ \A k \in 1..Len(calls) : calls[k].threw => "result" \in DOMAIN calls[k]
    /\ (version = "openrouter" /\ secondary.made /\ secondary.threw) =>
           "result" \in DOMAIN secondary

\* the part of a placeholder analysis that describes the image
placeholder(analysis) ==
    [score |-> analysis.score,
     features |-> analysis.detectedFeatures,
     barriers |-> analysis.detectedBarriers,
     recommendations |-> analysis.recommendations]

\* C12: two calls of the adapter that both fail and were made for the same
\* image bytes return the same placeholder analysis (score, features,
\* barriers, recommendations), whatever filename each was given.
C12_MockDependsOnBytesOnly ==
    (/\ input.op = "analyzeAccessibility"
     /\ Len(output) = 2
     /\ input.args[1].base64Image = input.args[2].base64Image) =>
        placeholder(output[1]) = placeholder(output[2])

\* the fields of a normalized analysis record
RecordFields ==
    {"filename", "score", "positive_features", "barriers", "safety_concerns",
     "recommendations", "accessibility_rating", "priority_improvements", "raw_analysis"}

parsedText == input.args[1].analysisText

parserRan == input.op = "parseAnalysisResponse" /\ Len(output) = 1

\* C13: for every text, parseAnalysisResponse returns a normalized record
\* (it does not throw) that keeps the text; the record comes from the primary
\* path when the text has a {...} span that is JSON, and from the keyword
\* fallback path when it has no such span or the span is not JSON.
C13_ParserNeverThrows ==
    parserRan =>
        /\ RecordFields \subseteq DOMAIN output[1]
        /\ output[1].raw_analysis = parsedText
        /\ output[1].filename = input.args[1].filename
        /\ output[1].path = IF parsedText \in JsonTexts THEN "primary" ELSE "fallback"

\* a text whose {...} span JSON.parse rejects has been parsed on the fallback path
C13_BrokenJsonFellBack ==
    /\ parserRan
    /\ parsedText \in BrokenJsonTexts
    /\ "path" \in DOMAIN output[1]
    /\ output[1].path = "fallback"

\* the tables in the order they are consulted, by the category each stands for
TableOrder == <<"positive", "negative", "safety", "measurements", "rooms">>

\* keyword occurs in name, letter case ignored
occursIn(keyword, name) ==
    \E i \in 1..Len(name) :
        /\ i + Len(keyword) - 1 <= Len(name)
        /\ toLowerCase(SubSeq(name, i, i + Len(keyword) - 1)) = toLowerCase(keyword)

\* the tables that hold a keyword occurring in name, as positions in TableOrder
tablesHit(name) ==
    {t \in 1..Len(TableOrder) :
        \E j \in 1..Len(accessibilityObjects[TableOrder[t]]) :
            occursIn(accessibilityObjects[TableOrder[t]][j], name)}

\* what some names are categorized as, read off the tables by hand
KnownCategories ==
    [n \in {"Ramp", "Stair Handrail", "STEEP STAIR", "Exit Sign", "Fire Extinguisher",
            "Doorway Width", "Stair Width", "Bathroom", "Staircase", "Tree"} |->
        CASE n \in {"Ramp", "Stair Handrail", "Fire Extinguisher"} -> "positive"
          [] n \in {"STEEP STAIR", "Stair Width", "Staircase"} -> "negative"
          [] n = "Exit Sign" -> "safety"
          [] n = "Doorway Width" -> "measurements"
          [] n = "Bathroom" -> "rooms"
          [] n = "Tree" -> "general"]

categorized == input.op = "categorizeObject" /\ Len(output) = 1

\* C14: categorizeObject returns the category of the first table, in the
\* order positive, negative, safety, measurement, room, that holds a keyword
\* occurring in the name with letter case ignored, and general when no table
\* does; a name matching a positive and a negative keyword is positive.
C14_FirstTableWins ==
    categorized =>
        LET name == input.args[1].objectName
            hits == tablesHit(name)
        IN  /\ output[1] = IF hits = {} THEN "general"
                           ELSE TableOrder[CHOOSE t \in hits : \A u \in hits : t <= u]
            /\ name \in DOMAIN KnownCategories => output[1] = KnownCategories[name]

\* a name with a positive and a negative keyword has been categorized positive
C14_FeatureAndBarrierName ==
    /\ categorized
    /\ {1, 2} \subseteq tablesHit(input.args[1].objectName)
    /\ output[1] = "positive"

anyOccursIn(keywords, name) == \E k \in keywords : occursIn(k, name)

\* the bonus of a positive label, by feature
bonusOf(name) ==
    IF anyOccursIn({"ramp", "elevator", "lift"}, name) THEN 15
    ELSE IF anyOccursIn({"wide doorway", "wide hallway", "accessible entrance"}, name) THEN 12
    ELSE IF anyOccursIn({"grab bar", "handrail", "safety rail"}, name) THEN 10
    ELSE IF anyOccursIn({"accessible bathroom", "accessible kitchen"}, name) THEN 8
    ELSE IF anyOccursIn({"good lighting", "clear pathway"}, name) THEN 6
    ELSE 5

\* the penalty of a negative label, by barrier
penaltyOf(name) ==
    IF anyOccursIn({"steep stair", "narrow stair", "high step"}, name) THEN 20
    ELSE IF anyOccursIn({"narrow doorway", "narrow hallway", "narrow corridor"}, name) THEN 15
    ELSE IF anyOccursIn({"high threshold", "step", "stair"}, name) THEN 12
    ELSE IF anyOccursIn({"trip hazard", "slippery surface", "uneven surface"}, name) THEN 10
    ELSE IF anyOccursIn({"cluttered", "poor lighting"}, name) THEN 8
    ELSE 5

\* what one label adds to the score
scoreChange(name) ==
    LET hits == tablesHit(name)
    IN  IF 1 \in hits THEN bonusOf(name)
        ELSE IF 2 \in hits THEN 0 - penaltyOf(name)
        ELSE IF 3 \in hits THEN 8
        ELSE 0

\* the sum of the changes of the labels at the positions in a set
RECURSIVE sumChanges(_, _)
sumChanges(labels, positions) ==
    IF positions = {} THEN 0
    ELSE LET k == CHOOSE j \in positions : TRUE
         IN  scoreChange(labels[k].Name) + sumChanges(labels, positions \ {k})

reversed(seq) == [i \in 1..Len(seq) |-> seq[Len(seq) + 1 - i]]

scored == input.op = "processLabels" /\ Len(output) = 1

\* C15: the score processLabels returns is 50 plus the bonus of each positive
\* label, minus the penalty of each negative label, plus 8 for each safety
\* label, brought into 0..100; it is the score of the same labels in the
\* opposite order; and Ramp with Narrow Doorway scores 50, rated Very Poor.
C15_ScoreIsClampedSum ==
    scored =>
        LET labels == input.args[1].labels
            total  == 50 + sumChanges(labels, DOMAIN labels)
        IN  /\ output[1].score = IF total < 0 THEN 0 ELSE IF total > 100 THEN 100 ELSE total
            /\ output[1].score = processLabels(reversed(labels), input.args[1].filename).score
            /\ labels = <<Label("Ramp"), Label("Narrow Doorway")>> =>
                   /\ output[1].score = 50
                   /\ output[1].analysis.accessibilityRating = "Very Poor"

\* labels whose penalties lead below zero have been scored 0
C15_ClampedAtZero ==
    /\ scored
    /\ 50 + sumChanges(input.args[1].labels, DOMAIN input.args[1].labels) < 0
    /\ output[1].score = 0

\* the file is of a type the upload does not accept
unsupportedType(file) ==
    \/ file.mimetype \notin {"image/jpeg", "image/jpg", "image/png", "image/webp"}
    \/ \A ext \in {".jpeg", ".jpg", ".png", ".webp"} :
           Len(file.originalname) < Len(ext)
           \/ toLowerCase(SubSeq(file.originalname, Len(file.originalname) - Len(ext) + 1,
                                 Len(file.originalname))) # ext

\* C16: an upload with a file of an unsupported type or with more than five
\* files is answered 400 with an error body, and a POST /api/analyze whose
\* body is not JSON is answered 400; none of them is answered 500.
C16_ClientErrorsAre400 ==
    /\ (/\ done /\ caller = "upload"
        /\ \/ Len(reqBody.files) > 5
           \/ \E k \in 1..Len(reqBody.files) : unsupportedType(reqBody.files[k])) =>
           /\ response.status = 400
           /\ "error" \in DOMAIN response.body
    /\ (done /\ caller = "json") => response.status = 400

\* the service can take a step: a request can arrive, or the provider call
\* in flight can end (with an answer, a failure, or a timeout)
canStep == pc \in {"idle", "image", "wholeset"}

\* C17: every provider call is bounded by a timeout: once analyzeImages has
\* been called, it has returned or the call it awaits can still end; a call
\* to a provider that never answers is ended like a failed call and does not
\* leave the batch blocked.
C17_SilentProviderTimesOut == invoked => (done \/ canStep)

\* the category of a name, read off the tables
categoryOf(name) ==
    LET hits == tablesHit(name)
    IN  IF hits = {} THEN "general"
        ELSE TableOrder[CHOOSE t \in hits : \A u \in hits : t <= u]

\* some label of the list is categorized as category and holds one of the keywords
someLabel(labels, category, keywords) ==
    \E i \in 1..Len(labels) :
        /\ categoryOf(labels[i].Name) = category
        /\ anyOccursIn(keywords, labels[i].Name)

\* the recommendations returned hold one that contains phrase
recommends(phrase) ==
    \E i \in 1..Len(output[1].recommendations) :
        includes(output[1].recommendations[i], phrase)

\* C18: for every label list, the recommendations of processLabels hold the
\* ADA ramp-slope one whenever a label was categorized as a step or stair
\* barrier, the widen-doorways one whenever a label was categorized as a
\* narrow doorway or hallway barrier, the smoke-detector, fire-extinguisher
\* and exit ones exactly when no label was categorized safety, and the
\* grab-bar one whenever a Bathroom room label is present and no grab-bar
\* label is.
C18_RecommendationRules ==
    scored =>
        LET labels == input.args[1].labels
        IN  /\ someLabel(labels, "negative", {"step", "stair"}) =>
                   recommends("Install ramp for wheelchair access (ADA requires 1:12 slope)")
            /\ someLabel(labels, "negative", {"narrow doorway", "narrow hallway"}) =>
                   recommends("Widen doorways to minimum 32 inches")
            /\ (\A i \in 1..Len(labels) : categoryOf(labels[i].Name) # "safety") <=>
                   /\ recommends("Install smoke detectors in all rooms")
                   /\ recommends("Add fire extinguisher in kitchen and near exits")
                   /\ recommends("Ensure emergency exits are clearly marked")
            /\ (/\ someLabel(labels, "rooms", {"bathroom"})
                /\ \A i \in 1..Len(labels) : ~occursIn("grab bar", labels[i].Name)) =>
                   recommends("Install grab bars in bathroom")

\* the recognized fields, the default of each and the JSON type of its values
FieldDefaults ==
    [score |-> 0, positive_features |-> <<>>, barriers |-> <<>>, safety_concerns |-> <<>>,
     recommendations |-> <<>>, accessibility_rating |-> "Unknown",
     priority_improvements |-> <<>>]

FieldTypes ==
    [score |-> "num", positive_features |-> "arr", barriers |-> "arr",
     safety_concerns |-> "arr", recommendations |-> "arr", accessibility_rating |-> "str",
     priority_improvements |-> "arr"]

\* the text from its first { to its last }, "" when no } follows a {
braceSpan(text) ==
    LET opens  == {i \in 1..Len(text) : Chr(text, i) = "{"}
        closes == {i \in 1..Len(text) : Chr(text, i) = "}"}
    IN  IF opens = {} \/ closes = {} THEN ""
        ELSE LET first == CHOOSE i \in opens : \A j \in opens : i <= j
                 last  == CHOOSE i \in closes : \A j \in closes : j <= i
             IN  IF first < last THEN SubSeq(text, first, last) ELSE ""

\* the primary path is taken exactly when the span is JSON, and the text is kept
spanDecides ==
    /\ output[1].path = "primary" <=>
           (Len(braceSpan(parsedText)) > 0 /\ JSONparse(braceSpan(parsedText)).ok)
    /\ output[1].raw_analysis = parsedText

\* the member of the parsed span for a field
parsedMember(field) == member(JSONparse(braceSpan(parsedText)).v, field)

\* null, false, 0 and "" are the values JavaScript takes for false
falsy(x) ==
    \/ x.t = "undefined"
    \/ x.t = "lit" /\ x.v \in {"null", "false"}
    \/ x.t = "num" /\ x.v = 0
    \/ x.t = "str" /\ x.v = ""

\* C19, as the code has it: the JSON candidate is the span from the first {
\* to the last } of the text; when it parses, each recognized field whose
\* member is present and not falsy is copied from the parsed object, each
\* field whose member is missing or falsy (null, false, 0, "") gets its
\* default 0, empty list or Unknown, and the raw text is retained.
C19_TruthyFieldsCopied ==
    parserRan =>
        /\ spanDecides
        /\ output[1].path = "primary" =>
               \A f \in DOMAIN FieldDefaults :
                   LET x == parsedMember(f)
                   IN  /\ falsy(x) => output[1][f] = FieldDefaults[f]
                       /\ (~falsy(x) /\ x.t = FieldTypes[f]) => output[1][f] = jsValue(x)

\* a text whose object has null and empty members has been parsed into the defaults
C19_NullFieldsDefaulted ==
    /\ parserRan
    /\ parsedText = "{\"score\": null, \"barriers\": null, \"accessibility_rating\": \"\"}"
    /\ output[1].path = "primary"
    /\ output[1].score = 0
    /\ output[1].barriers = <<>>
    /\ output[1].accessibility_rating = "Unknown"

\* C19, as stated: when the span parses, each recognized field is copied from
\* the parsed object (a member that is present is what the record holds, so a
\* null member is not turned into a default) and each missing field defaults
\* to 0, an empty list or Unknown, with the raw text retained.
C19_PresentFieldsCopied ==
    parserRan =>
        /\ spanDecides
        /\ output[1].path = "primary" =>
               \A f \in DOMAIN FieldDefaults :
                   LET x == parsedMember(f)
                   IN  /\ x.t = "undefined" => output[1][f] = FieldDefaults[f]
                       /\ x.t = FieldTypes[f] => output[1][f] = jsValue(x)
                       /\ (x.t = "lit" /\ x.v = "null") => output[1][f] # FieldDefaults[f]

\* the keyword set behind each list of the fallback record
FallbackKeywords ==
    [positive_features |-> {"ramp", "wide", "accessible", "grab bar", "handrail",
                            "good lighting", "clear pathway", "accessible bathroom",
                            "accessible kitchen"},
     barriers |-> {"step", "narrow", "threshold", "poor lighting", "cluttered",
                   "inaccessible", "trip hazard", "slippery"},
     recommendations |-> {"install", "add", "improve", "widen", "remove", "fix"}]

\* a line without the marker (- or *) in its first column, the blanks after
\* the marker, and the blanks at its ends
unmarked(line) ==
    LET body == IF Len(line) > 0 /\ Chr(line, 1) \in {"-", "*"}
                THEN SubSeq(line, 2, Len(line)) ELSE line
        inked == {i \in 1..Len(body) : ~isSpace(Chr(body, i))}
    IN  IF inked = {} THEN ""
        ELSE SubSeq(body, CHOOSE i \in inked : \A j \in inked : i <= j,
                          CHOOSE i \in inked : \A j \in inked : j <= i)

\* the lines holding a keyword of the set, unmarked, in text order
RECURSIVE keywordLines(_, _)
keywordLines(lines, keywords) ==
    IF Len(lines) = 0 THEN <<>>
    ELSE (IF anyOccursIn(keywords, lines[1]) /\ unmarked(lines[1]) # ""
          THEN <<unmarked(lines[1])>> ELSE <<>>)
         \o keywordLines(Tail(lines), keywords)

\* the score each text without a parsable span carries, read off by hand
ScoreInText(text) ==
    CASE text = "Accessibility score 250 out of 100" -> 250
      [] text = "The space is accessible {score: 70}" -> 70
      [] includes(text, "Overall") -> 65
      [] OTHER -> 50

fellBack == parserRan /\ output[1].path = "fallback"

imageConfidence(k) ==
    IF calls[k].threw THEN 0
    ELSE IF "analysis" \in DOMAIN calls[k].result
            /\ "confidence" \in DOMAIN calls[k].result.analysis
    THEN calls[k].result.analysis.confidence
    ELSE 0

RECURSIVE sumConfidences(_)
sumConfidences(k) == IF k = 0 THEN 0 ELSE sumConfidences(k - 1) + imageConfidence(k)

\* the entries of detailed_results that are not error placeholders
validEntries(report) ==
    {k \in 1..Len(report.analysis.detailed_results) :
        LET entry == report.analysis.detailed_results[k]
            inner == IF "rekognition" \in DOMAIN entry THEN entry.rekognition ELSE entry.vision
        IN  "error" \notin DOMAIN inner}

\* C21: in every report, synthesized or fallback, of either version,
\* confidence is the (rounded) mean of the confidences of the per-image results
\* that are not error placeholders, and 0 when every per-image result is an
\* error placeholder.
C21_ConfidenceIsMeanOfValid ==
    (done /\ invoked /\ N >= 1 /\ reported) =>
        LET valid == validEntries(returned.report)
        IN  returned.report.analysis.confidence =
                IF valid = {} THEN 0
                ELSE Rounded(sumConfidences(N), Cardinality(valid))

\* C22: after analyzeImages has processed its N images, detailed_results
\* holds exactly N entries and entry i carries the filename of image i,
\* whichever per-image calls failed: every image has one slot, none is
\* duplicated or dropped.
C22_OneSlotPerImage ==
    (done /\ invoked /\ reported) =>
        LET results == returned.report.analysis.detailed_results
        IN  /\ Len(results) = N
            /\ \A i \in 1..N : results[i].filename = images[i].filename

\* the hash of each filename as a signed 32-bit number, worked out apart from
\* the model: 31 * a + code over the characters, wrapped to 32 bits
KnownHashes ==
    [f \in MockFilenames |->
        CASE f = "" -> 0
          [] f = "a" -> 97
          [] f = "ab" -> 3105
          [] f \in {"Aa", "BB"} -> 2112
          [] f \in {"polygenelubricants", "GydZG_", "DESIGNING WORKHOUSES"} -> -2147483647 - 1
          [] f = "front-door.jpg" -> -1914592059
          [] f = "kitchen.png" -> -120389409
          [] f = "comprehensive_analysis" -> -1375089561
          [] f = "img1.jpg" -> -739324223
          [] f = "living-room.webp" -> -646820181
          [] f = "bathroom_01.jpeg" -> 2064055108
          [] f = "stairs.jpg" -> -1011616195
          [] f = "zzzzzz" -> -685785664]

\* the magnitude of a 32-bit number, modulo n (the magnitude of -2^31 is 2^31)
magnitudeMod(x, n) ==
    IF x >= 0 THEN x % n
    ELSE IF x = -2147483647 - 1 THEN ((2147483647 % n) + 1) % n
    ELSE (0 - x) % n

mocked == input.op = "generateMockAnalysis" /\ Len(output) = 1

mockedName == input.args[1].filename

\* C23: for every filename, those whose 32-bit hash wraps to a negative
\* value or to -2^31 included, generateMockAnalysis returns a whole score
\* between 40 and 85 that is fixed by the hash alone: 40 plus the magnitude
\* of the hash modulo 45.
C23_MockScoreFromHash ==
    mocked =>
        /\ output[1].score \in 40..85
        /\ output[1].score = 40 + magnitudeMod(KnownHashes[mockedName], 45)

\* the mock analysis of a filename whose hash is -2^31 has been generated
C23_HashAtMinimum ==
    /\ mocked
    /\ KnownHashes[mockedName] = -2147483647 - 1
    /\ hashNegative(filenameHash(mockedName))
    /\ output[1].score = 78

\* C29: for every filename, the recommendations generateMockAnalysis returns
\* are between 3 and 5 entries of the fixed pool, pairwise distinct.
C29_MockRecommendationsDistinct ==
    mocked =>
        LET recs == output[1].recommendations
        IN  /\ Len(recs) \in 3..5
            /\ \A i \in 1..Len(recs) : seqHas(mockRecommendationPool, recs[i])
            /\ \A i, j \in 1..Len(recs) : recs[i] = recs[j] => i = j

Buckets == {"positive", "negative", "safety", "measurements", "rooms", "general"}

\* the labels of a list that fall in a bucket, as the objects kept for them
RECURSIVE labelsIn(_, _)
labelsIn(labels, bucket) ==
    IF Len(labels) = 0 THEN <<>>
    ELSE (IF categoryOf(labels[1].Name) = bucket
          THEN <<[name |-> labels[1].Name, confidence |-> labels[1].Confidence]>>
          ELSE <<>>)
         \o labelsIn(Tail(labels), bucket)

RECURSIVE sumLens(_, _)
sumLens(objects, buckets) ==
    IF buckets = {} THEN 0
    ELSE LET b == CHOOSE x \in buckets : TRUE
         IN  Len(objects[b]) + sumLens(objects, buckets \ {b})

\* C24: processLabels places every label in exactly one of the buckets
\* positive, negative, safety, measurements, rooms, general: each bucket holds
\* the labels of its category, once per occurrence, so the sizes sum to
\* totalLabels; positiveFeatures has one entry per label categorized positive
\* or safety and redFlags one entry per label categorized negative.
C24_EveryLabelInOneBucket ==
    scored =>
        LET labels  == input.args[1].labels
            objects == output[1].detectedObjects
        IN  /\ DOMAIN objects = Buckets
            /\ \A b \in Buckets : objects[b] = labelsIn(labels, b)
            /\ output[1].totalLabels = Len(labels)
            /\ sumLens(objects, Buckets) = output[1].totalLabels
            /\ Len(output[1].positiveFeatures) =
                   Len(labelsIn(labels, "positive")) + Len(labelsIn(labels, "safety"))
            /\ Len(output[1].redFlags) = Len(labelsIn(labels, "negative"))

\* a list with the same positive label twice has been processed: two objects, two features
C24_RepeatedAndGeneralLabels ==
    /\ scored
    /\ Len(output[1].detectedObjects.positive) = 2
    /\ output[1].detectedObjects.positive[1] = output[1].detectedObjects.positive[2]
    /\ Len(output[1].positiveFeatures) = 2

\* an entry of analysisResults is the placeholder of a failed image
isPlaceholder(entry) ==
    "error" \in DOMAIN (IF "rekognition" \in DOMAIN entry THEN entry.rekognition
                        ELSE entry.vision)

\* the step is the end of an iteration whose catch ran: the entry pushed last
\* is a placeholder
perImageFailure ==
    /\ pc = "image"
    /\ Len(locals'.analysisResults) > Len(locals.analysisResults)
    /\ isPlaceholder(locals'.analysisResults[Len(locals'.analysisResults)])

accumulatorsUnchanged ==
    /\ locals'.totalScore = locals.totalScore
    /\ locals'.allPositiveFeatures = locals.allPositiveFeatures
    /\ locals'.allRedFlags = locals.allRedFlags
    /\ locals'.allRecommendations = locals.allRecommendations
    /\ locals'.allDetectedObjects = locals.allDetectedObjects

\* C25: a per-image failure leaves the accumulators of analyzeImages as they
\* were: the iteration that ends in the catch adds nothing to totalScore nor
\* to the accumulated feature, barrier, recommendation and detected-object
\* lists.
C25_FailureLeavesAccumulators == [][perImageFailure => accumulatorsUnchanged]_vars

\* C26: the recommendations of processLabels never hold the smoke-detector,
\* fire-extinguisher or emergency-exit recommendation for an image in which a
\* Smoke Detector, Fire Extinguisher or Emergency Exit label was detected.
C26_NoSafetyAdviceWhenDetected ==
    scored =>
        LET labels == input.args[1].labels
        IN  (\E i \in 1..Len(labels) :
                 anyOccursIn({"smoke detector", "fire extinguisher", "emergency exit"},
                             labels[i].Name)) =>
                /\ ~recommends("Install smoke detectors in all rooms")
                /\ ~recommends("Add fire extinguisher in kitchen and near exits")
                /\ ~recommends("Ensure emergency exits are clearly marked")

\* C27: a label whose name holds the negative keyword inaccessible is never
\* categorized positive by categorizeObject, and never raises the score
\* processLabels computes: with such a label alone the score is at most the
\* base score 50.
C27_InaccessibleNeverPositive ==
    /\ categorized =>
           (occursIn("inaccessible", input.args[1].objectName) => output[1] # "positive")
    /\ scored =>
           LET labels == input.args[1].labels
           IN  (Len(labels) = 1 /\ occursIn("inaccessible", labels[1].Name)) =>
                   /\ output[1].score <= 50
                   /\ output[1].detectedObjects.positive = <<>>

\* analyzeImages has been applied to the images in one order and in the other
permuted == input.op = "analyzeImages" /\ Len(output) = 2

\* C28: the report of analyzeImages does not depend on the order of the
\* images: for the same images in another order, the providers being
\* functions of the image, the two reports have the same overall_score, the
\* same accessibility_rating and the same features, barriers and
\* recommendations taken as sets.
C28_ReportIgnoresImageOrder ==
    permuted =>
        /\ output[1].kind = "report" /\ output[2].kind = "report"
        /\ LET a == output[1].report.analysis
               b == output[2].report.analysis
           IN  /\ a.overall_score = b.overall_score
               /\ a.accessibility_rating = b.accessibility_rating
               /\ Range(a.accessibility_features) = Range(b.accessibility_features)
               /\ Range(a.barriers) = Range(b.barriers)
               /\ Range(a.recommendations) = Range(b.recommendations)

\* C30: in scrapeImagesWithPython, once the timer has fired and killed the
\* scraper, no step spawns a further scraper process (the close event that
\* follows the kill included) and the promise stays rejected with the
\* timeout error.
C30_NoSpawnAfterTimeout ==
    [][(scraper.phase = "called" /\ scraper.timer = "fired" /\ scraper.killed) =>
           /\ scraper'.spawned = scraper.spawned
           /\ scraper'.promise = [state |-> "rejected", message |-> "Python scraper timeout"]
      ]_vars

====
